---------------------------- MODULE Spec2Model ----------------------------
(***************************************************************************)
(* A model of penumbra's versioned authenticated store                     *)
(* (crates/storage/src/storage.rs), of its AppHash and proofs              *)
(* (crates/core/component/chain/src/component/app_hash.rs) and of the      *)
(* action handlers of SwapClaim, DelegatorVote, the IBC messages           *)
(* ChannelOpenInit, ChannelOpenConfirm and CreateClient, and               *)
(* Ics20Withdrawal; of the protobuf conversions of TransactionView and     *)
(* Ics20Withdrawal, of the LPNFT denominations and of the transaction      *)
(* planner.                                                                *)
(*                                                                         *)
(* Spec     : the storage engine; committer tasks call Storage::commit,    *)
(*            whose version check and blocking write task are separate     *)
(*            steps, and every fallible write may fail.                    *)
(* RaceSpec : the same, with two tasks calling Storage::commit             *)
(*            concurrently on clones of the Storage handle.                *)
(* DexSpec  : blocks of transactions of SwapClaim actions run through      *)
(*            check_stateful and execute.                                  *)
(* GovSpec  : transactions of DelegatorVote actions on proposals.          *)
(* IbcSpec  : transactions of IBC messages run through check_stateless     *)
(*            and try_execute, with the handshake steps of counterparties. *)
(* ProofSpec: the storage engine with a client calling                     *)
(*            get_with_proof_to_apphash on cached snapshots.               *)
(* WithdrawalSpec : Ics20Withdrawal::validate on every withdrawal of a     *)
(*            bounded set.                                                 *)
(* ApiSpec  : the storage engine with a client that asks for versions and  *)
(*            snapshots, subscribes, and writes to a StateDelta.           *)
(* SubscribeSpec : the storage engine with subscribers of its watch        *)
(*            channel.                                                     *)
(* LoadSpec : the storage engine, closed and opened again by               *)
(*            Storage::load.                                               *)
(* CacheSpec: commits that succeed, enough of them to fill the snapshot    *)
(*            cache, and a client asking for snapshots.                    *)
(* CodecSpec: a domain value encoded to its protobuf bytes and decoded.    *)
(* NftSpec  : an LpNft made of a position id and a state and parsed back   *)
(*            from its denomination.                                       *)
(* PlannerSpec : calls of a Planner's methods and of                       *)
(*            plan_with_spendable_and_votable_notes.                       *)
(***************************************************************************)
EXTENDS Integers, Sequences, FiniteSets, TLC

(***************************************************************************)
(* Bounds of the model.                                                    *)
(***************************************************************************)
\* commit calls made in one behaviour
MaxCommits == 3
\* write errors injected in one behaviour
MaxFaults == 1
\* commit calls made in one behaviour of two racing committers
MaxRaceCommits == 3

(***************************************************************************)
(* u64 versions.  A u64 is kept as four 16-bit limbs, most significant     *)
(* first, so that wrapping_add and to_be_bytes keep their 64-bit width.    *)
(***************************************************************************)
LimbBase == 256 * 256
NumLimbs == 4

U64Max == <<LimbBase - 1, LimbBase - 1, LimbBase - 1, LimbBase - 1>>
U64Zero == <<0, 0, 0, 0>>

RECURSIVE IncFrom(_, _)
IncFrom(v, i) ==
    IF i = 0 THEN v
    ELSE IF v[i] = LimbBase - 1 THEN IncFrom([v EXCEPT ![i] = 0], i - 1)
    ELSE [v EXCEPT ![i] = @ + 1]

\* u64::wrapping_add(1)
WrappingAdd1(v) == IncFrom(v, NumLimbs)

\* the version n commits after v
RECURSIVE AddN(_, _)
AddN(v, n) == IF n = 0 THEN v ELSE WrappingAdd1(AddN(v, n - 1))

RECURSIVE DecFrom(_, _)
DecFrom(v, i) ==
    IF i = 0 THEN v
    ELSE IF v[i] = 0 THEN DecFrom([v EXCEPT ![i] = LimbBase - 1], i - 1)
    ELSE [v EXCEPT ![i] = @ - 1]

\* next_version - 1 as the tree takes its base version (wrapping below 0)
WrappingSub1(v) == DecFrom(v, NumLimbs)

\* u64::to_be_bytes
ToBeBytes(v) ==
    <<v[1] \div 256, v[1] % 256, v[2] \div 256, v[2] % 256,
      v[3] \div 256, v[3] % 256, v[4] \div 256, v[4] % 256>>

\* byte strings in lexicographic order, as RocksDB orders keys
RECURSIVE LexLeq(_, _)
LexLeq(x, y) ==
    IF x = <<>> THEN TRUE
    ELSE IF y = <<>> THEN FALSE
    ELSE IF x[1] < y[1] THEN TRUE
    ELSE IF x[1] > y[1] THEN FALSE
    ELSE LexLeq(Tail(x), Tail(y))

IsPrefix(p, x) == Len(p) <= Len(x) /\ SubSeq(x, 1, Len(p)) = p

(***************************************************************************)
(* Keys, values and maps with a growing domain.                            *)
(***************************************************************************)
Keys == {"a", "b"}
KeyOrder == <<"a", "b">>
Values == {1, 2}
NvKeys == {"n"}
NvKeyOrder == <<"n">>
NvValues == {1}

None == <<>>
Some(v) == <<v>>

EmptyMap == [x \in {} |-> None]
MapPut(f, k, v) == [x \in DOMAIN f \cup {k} |-> IF x = k THEN v ELSE f[x]]
MapDel(f, k) == [x \in DOMAIN f \ {k} |-> f[x]]

\* KeyHash::with::<Sha256>(key): one byte stands for the 32-byte digest
KeyHash(key) == IF key = "a" THEN <<10>> ELSE <<11>>

\* borsh of an Option<Vec<u8>>: a tag byte, then the value
BorshOption(o) == IF o = None THEN <<0>> ELSE <<1>> \o o
UnBorshOption(b) == IF b[1] = 0 THEN None ELSE Tail(b)


(***************************************************************************)
(* The RocksDB column families.  Each is a map from key to value; a write  *)
(* is one put_cf or delete_cf.                                             *)
(***************************************************************************)
EmptyDb ==
    [jmt |-> EmptyMap, jmt_values |-> EmptyMap, jmt_keys |-> EmptyMap,
     jmt_keys_by_keyhash |-> EmptyMap, nonverifiable |-> EmptyMap]

PutOp(cf, k, v) == [op |-> "put", cf |-> cf, key |-> k, val |-> v]
DelOp(cf, k) == [op |-> "delete", cf |-> cf, key |-> k, val |-> None]

ApplyOp(d, w) ==
    IF w.op = "put"
    THEN [d EXCEPT ![w.cf] = MapPut(@, w.key, w.val)]
    ELSE [d EXCEPT ![w.cf] = MapDel(@, w.key)]

\* the first n writes of ws, in order
RECURSIVE ApplyOps(_, _, _)
ApplyOps(d, ws, n) ==
    IF n = 0 THEN d
    ELSE ApplyOp(ApplyOps(d, ws, n - 1), ws[n])

\* concatenation of a sequence of sequences
RECURSIVE Flatten(_)
Flatten(ss) == IF ss = <<>> THEN <<>> ELSE Head(ss) \o Flatten(Tail(ss))

(***************************************************************************)
(* Encodings of the on-disk keys.                                          *)
(***************************************************************************)
\* VersionedKeyHash::encode: key hash, then the big-endian version
VersionedKeyHashEncode(version, key_hash) == key_hash \o ToBeBytes(version)

\* DbNodeKey::encode: the big-endian version, then the serialized node key
\* (the nibble path: empty for the root, the key hash for a leaf below it)
DbNodeKeyEncode(version, path) == ToBeBytes(version) \o path

RootPath == <<>>

(***************************************************************************)
(* The Jellyfish Merkle tree as the store uses it.  With at most one live  *)
(* key the root is a Null or a Leaf node; with more, the root is an        *)
(* Internal node over one Leaf per key.  Nodes are written under the       *)
(* version that created them and never rewritten by a later version.       *)
(***************************************************************************)
NoNode == [kind |-> "Missing", key_hash |-> <<>>, value_hash |-> <<>>, children |-> EmptyMap]
NullNode == [kind |-> "Null", key_hash |-> <<>>, value_hash |-> <<>>, children |-> EmptyMap]
LeafNode(kh, vh) == [kind |-> "Leaf", key_hash |-> kh, value_hash |-> vh, children |-> EmptyMap]
InternalNode(ch) == [kind |-> "Internal", key_hash |-> <<>>, value_hash |-> <<>>, children |-> ch]

\* ValueHash::with::<Sha256>(value)
ValueHash(v) == <<"vh", v>>

GetNode(d, version, path) ==
    LET k == DbNodeKeyEncode(version, path)
    IN  IF k \in DOMAIN d.jmt THEN d.jmt[k] ELSE NoNode

\* the leaves of the tree of `version`: key hash -> [version, value_hash],
\* the version being the one of the leaf's node
TreeLeaves(d, version) ==
    LET root == GetNode(d, version, RootPath)
    IN  IF root.kind = "Leaf"
        THEN [kh \in {root.key_hash} |-> [version |-> version, value_hash |-> root.value_hash]]
        ELSE IF root.kind = "Internal" THEN root.children
        ELSE EmptyMap

\* the root hash of a set of leaves: a function of the (key hash, value hash)
\* pairs alone, as a Merkle root is
HashLeaves(leaves) == {<<kh, leaves[kh].value_hash>> : kh \in DOMAIN leaves}

RECURSIVE ApplyChanges(_, _, _)
ApplyChanges(leaves, changes, version) ==
    IF changes = <<>> THEN leaves
    ELSE LET c == Head(changes)
             l == IF c[2] = None
                  THEN MapDel(leaves, c[1])
                  ELSE MapPut(leaves, c[1],
                              [version |-> version, value_hash |-> ValueHash(c[2][1])])
         IN  ApplyChanges(l, Tail(changes), version)

\* jmt.put_value_set(changes, new_version) on the tree of new_version - 1:
\* the root hash and the batch of new nodes and values, or an error when the
\* base root is missing (no error before genesis, where the tree is empty)
PutValueSet(d, changes, new_version) ==
    LET base == WrappingSub1(new_version)
        baseRoot == GetNode(d, base, RootPath)
        old == TreeLeaves(d, base)
        upd == ApplyChanges(old, changes, new_version)
        \* a leaf that stood at the root moves below a new Internal root
        new == IF Cardinality(DOMAIN upd) >= 2 /\ baseRoot.kind = "Leaf"
               THEN [kh \in DOMAIN upd |-> [upd[kh] EXCEPT !.version = new_version]]
               ELSE upd
        n == Cardinality(DOMAIN new)
        root == IF n = 0 THEN NullNode
                ELSE IF n = 1
                THEN LET kh == CHOOSE h \in DOMAIN new : TRUE
                     IN  LeafNode(kh, new[kh].value_hash)
                ELSE InternalNode(new)
        leafKeys == IF n >= 2
                    THEN SelectSeq([i \in 1..Len(KeyOrder) |-> KeyHash(KeyOrder[i])],
                                   LAMBDA kh : kh \in DOMAIN new /\ new[kh].version = new_version)
                    ELSE <<>>
        nodes == <<<<new_version, RootPath, root>>>>
                 \o [i \in 1..Len(leafKeys) |->
                        <<new_version, leafKeys[i], LeafNode(leafKeys[i], new[leafKeys[i]].value_hash)>>]
        values == [i \in 1..Len(changes) |-> <<new_version, changes[i][1], changes[i][2]>>]
    IN  IF baseRoot.kind = "Missing" /\ new_version # U64Zero
        THEN [ok |-> FALSE, root_hash |-> {}, nodes |-> <<>>, values |-> <<>>]
        ELSE [ok |-> TRUE, root_hash |-> HashLeaves(new), nodes |-> nodes, values |-> values]

(***************************************************************************)
(* Reads through a Snapshot: a handle on the database and a version.       *)
(***************************************************************************)
\* the value of key_hash with the greatest version <= max_version in
\* jmt_values, found by seeking back from (key_hash || BE(max_version))
GetValueOption(d, max_version, key_hash) ==
    LET bound == VersionedKeyHashEncode(max_version, key_hash)
        cands == {k \in DOMAIN d.jmt_values :
                    IsPrefix(key_hash, k) /\ LexLeq(k, bound)}
    IN  IF cands = {} THEN None
        ELSE LET top == CHOOSE k \in cands : \A j \in cands : LexLeq(j, k)
             IN  UnBorshOption(d.jmt_values[top])

\* Snapshot::get_raw(key) on a snapshot of `version`: walk the tree of that
\* version to the key's leaf, then fetch the value
SnapshotGet(d, version, key) ==
    LET kh == KeyHash(key)
        leaves == TreeLeaves(d, version)
    IN  IF kh \in DOMAIN leaves /\ GetNode(d, leaves[kh].version,
                 IF GetNode(d, version, RootPath).kind = "Leaf" THEN RootPath ELSE kh).kind = "Leaf"
        THEN GetValueOption(d, version, kh)
        ELSE None

\* Snapshot::root_hash on a snapshot of `version`
SnapshotRootHash(d, version) == HashLeaves(TreeLeaves(d, version))

(***************************************************************************)
(* The AppHash.  A byte string is a sequence of chunks, a digest is the    *)
(* function's name with the string it was computed of.                     *)
(***************************************************************************)
APPHASH_DOMSEP == "PenumbraAppHash"

\* Sha256 of a byte string
Sha256(bytes) == <<"sha256", bytes>>

\* AppHash::from(root) without the domain separator
AppHashRootOnly(r) == Sha256(<<r>>)

\* AppHash::from(root): SHA256("PenumbraAppHash" || root)
AppHashFrom(r) == Sha256(<<APPHASH_DOMSEP>> \o <<r>>)

\* AppHashRead::app_hash on a snapshot of `version`
SnapshotAppHash(d, version) == AppHashFrom(SnapshotRootHash(d, version))

\* apphash_spec().leaf_spec
ApphashSpecLeaf ==
    [prefix |-> <<>>, hash |-> "Sha256", length |-> "NoPrefix",
     prehash_key |-> "NoHash", prehash_value |-> "NoHash"]

\* ics23 HashOp and LengthOp applied to a byte string
DoHash(op, bytes) == IF op = "NoHash" THEN bytes ELSE <<Sha256(bytes)>>
DoLength(op, bytes) == IF op = "NoPrefix" THEN bytes ELSE <<Len(bytes)>> \o bytes

\* ics23 LeafOp applied to a key and a value:
\* hash(prefix || length(prehash_key(key)) || length(prehash_value(value)))
ApplyLeafOp(leaf, key, value) ==
    DoHash(leaf.hash,
           leaf.prefix \o DoLength(leaf.length, DoHash(leaf.prehash_key, <<key>>))
                       \o DoLength(leaf.length, DoHash(leaf.prehash_value, <<value>>)))[1]

\* Snapshot::get_with_proof(key): the value with an existence proof of it,
\* or None with a non-existence proof of the key
SnapshotGetWithProof(d, version, key) ==
    LET v == SnapshotGet(d, version, key)
    IN  IF v # None
        THEN [value |-> v, proof |-> [kind |-> "Exist", key |-> key, value |-> v[1]]]
        ELSE [value |-> None, proof |-> [kind |-> "NonExist", key |-> key]]

\* AppHashRead::get_with_proof_to_apphash(key) on a snapshot of `version`
GetWithProofToApphash(d, version, key) ==
    LET got == SnapshotGetWithProof(d, version, key)
        jmt_root == SnapshotRootHash(d, version)
        root_proof == [kind |-> "Exist", key |-> APPHASH_DOMSEP, value |-> jmt_root,
                       path |-> <<>>, leaf |-> ApphashSpecLeaf]
    IN  [value |-> got.value, proofs |-> <<got.proof, root_proof>>]

(***************************************************************************)
(* The state of the storage engine.                                        *)
(***************************************************************************)
VARIABLES
    db,          \* Inner.db: the column families
    snapshots,   \* Inner.snapshots: the cached snapshot versions, latest first
    state_tx,    \* Inner.state_tx: the watch channel's value and send count
    task,        \* per committer: its StateDelta and its place in commit
    ncommits,    \* calls of Storage::commit so far
    nfaults,     \* write errors injected so far
    published,   \* per published version, what a read of each key returned
                 \* when the version was pushed (history, read by no action)
    committed_db,\* the column families as the last successful commit left
                 \* them (history, read by no action)
    content,     \* per published version, the key/value content the committed
                 \* writes add up to (history, read by no action)
    written_at,  \* per published version, the puts and deletes of its commit
                 \* (history, read by no action)
    receivers    \* the watch::Receivers handed out by subscribe: for each,
                 \* the number of sends before it and the versions it was
                 \* notified of

svars == <<db, snapshots, state_tx, task, ncommits, nfaults, published, committed_db,
          content, written_at, receivers>>

\* the state of the application (the dex component's SwapClaim handler)
VARIABLES
    chain,     \* the committed state
    block,     \* the state of the block being executed (a delta on chain)
    tx,        \* the transaction being run: its delta and its current action
    block_height, \* the height of the block being executed
    ntxs       \* transactions delivered so far

dvars == <<chain, block, tx, block_height, ntxs>>

\* the state of the governance component (the DelegatorVote handler)
VARIABLES
    gov,       \* proposals, spent nullifiers, votes cast, the chain height
    vote_tx,   \* the DelegatorVote delivered last and what its phases returned
    nvotes     \* DelegatorVotes delivered so far

gvars == <<gov, vote_tx, nvotes>>

\* the state of the IBC component (channel and client message handlers)
VARIABLES
    ibc,       \* channels, sequences, connections, clients, counters, events
    ibc_tx,    \* the message delivered last, what its handler returned and
               \* the state the handler left
    nmsgs      \* messages delivered so far

ivars == <<ibc, ibc_tx, nmsgs>>

\* the Ics20Withdrawal action of a transaction
VARIABLES
    withdrawal,         \* the Ics20Withdrawal
    withdrawal_result   \* what validate returned for it, "none" before the call

wvars == <<withdrawal, withdrawal_result>>

\* a client reading with proofs
VARIABLES
    proof_read   \* the call of get_with_proof_to_apphash that has just returned
                 \* and its result, NoRead when there is none

rvars == <<proof_read>>

\* a client of the Storage handle
VARIABLES
    api,     \* the call of the handle that has just returned and its result,
             \* NoCall when there is none
    delta    \* the StateDelta of a validation pass, NoDelta when there is none

avars == <<api, delta>>

\* values being converted and a transaction planner
VARIABLES
    codec,     \* a domain value on its way through encode and decode
    nft,       \* an LpNft on its way to its denomination and back
    planner    \* a Planner, the calls made on it and what the last returned

pvars == <<codec, nft, planner>>

\* calls of pure functions and a run of pcli
VARIABLES
    fmd,     \* a call of fmd_parameters_valid: what it read and what it returned
    ratio,   \* Ratios being compared and the results of the comparisons
    pcli     \* a run of pcli tx swap against a node: the run's place and the
             \* chain it talks to

qvars == <<fmd, ratio, pcli>>

\* what the actions of one component leave alone
notStorage == <<dvars, gvars, ivars, wvars, rvars, avars, pvars, qvars>>
notDex == <<svars, gvars, ivars, wvars, rvars, avars, pvars, qvars>>
notGov == <<svars, dvars, ivars, wvars, rvars, avars, pvars, qvars>>
notIbc == <<svars, dvars, gvars, wvars, rvars, avars, pvars, qvars>>
notWithdrawal == <<svars, dvars, gvars, ivars, rvars, avars, pvars, qvars>>
notRead == <<svars, dvars, gvars, ivars, wvars, avars, pvars, qvars>>
notApi == <<dvars, gvars, ivars, wvars, rvars, pvars, qvars>>
notPure == <<svars, dvars, gvars, ivars, wvars, rvars, avars, qvars>>
notCall == <<svars, dvars, gvars, ivars, wvars, rvars, avars, pvars>>

NoCall == [call |-> "none", arg |-> None, result |-> None]
NoDelta == [base |-> None, changes |-> EmptyMap]

ApiInit == api = NoCall /\ delta = NoDelta

(***************************************************************************)
(* The transaction planner of crates/wasm/src/planner.rs.  A Balance is    *)
(* the signed amount of each asset: what the actions provide is positive,  *)
(* what they require is negative.  The random number generator and the     *)
(* keys play no part in what the planner keeps, and are left out.          *)
(***************************************************************************)
AssetOrder == <<"X", "Y">>
Assets == {AssetOrder[i] : i \in DOMAIN AssetOrder}
MaxAmount == 2
MaxPlannerCalls == 3

PlannerValues == [asset_id : Assets, amount : 1..MaxAmount]

\* Balance::zero(), Balance::default()
BalanceZero == [a \in Assets |-> 0]

BalanceIsZero(balance) == \A a \in Assets : balance[a] = 0

\* Balance += Value, Balance -= Value
BalanceAdd(balance, value) == [balance EXCEPT ![value.asset_id] = @ + value.amount]
BalanceSub(balance, value) == [balance EXCEPT ![value.asset_id] = @ - value.amount]

\* Balance::provided(): the assets with a positive amount, in the order of
\* the asset ids
RECURSIVE ProvidedFrom(_, _)
ProvidedFrom(balance, i) ==
    IF i > Len(AssetOrder) THEN <<>>
    ELSE LET a == AssetOrder[i]
             rest == ProvidedFrom(balance, i + 1)
         IN IF balance[a] > 0
            THEN <<[asset_id |-> a, amount |-> balance[a]]>> \o rest
            ELSE rest

Provided(balance) == ProvidedFrom(balance, 1)

\* TransactionPlan::default()
PlanDefault ==
    [actions |-> <<>>, expiry_height |-> 0, chain_id |-> "", fee |-> None,
     clue_plans |-> 0, memo_plan |-> None]

\* Planner::new
PlannerNew == [balance |-> BalanceZero, vote_intents |-> {}, plan |-> PlanDefault]

\* a new planner on which nothing has been called: fees counts the calls of
\* fee since the planner was new or cleared, err is the error of the last
\* call of swap
PlannerInit == planner = [p |-> PlannerNew, ncalls |-> 0, result |-> None, fees |-> 0, err |-> ""]

\* the staking token, in which fees and deposits are paid
StakingToken == "X"

\* ActionPlan::balance() added to a balance: a spend provides its note's
\* value and an output requires its value; a swap requires its two inputs
\* and the claim fee, a swap claim provides the fee paid with the swap, an
\* undelegate claim requires unbonding tokens and provides the unbonded
\* amount, a proposal submission requires its deposit, a delegator vote
\* provides its receipt, and a withdrawal and a validator vote move nothing
ActionBalance(balance, action) ==
    CASE action.kind = "Spend" -> BalanceAdd(balance, action.value)
      [] action.kind = "Output" -> BalanceSub(balance, action.value)
      [] action.kind = "Swap" ->
            BalanceSub(BalanceSub(BalanceSub(balance,
                [asset_id |-> action.trading_pair[1], amount |-> action.delta_1]),
                [asset_id |-> action.trading_pair[2], amount |-> action.delta_2]),
                action.claim_fee)
      [] action.kind = "SwapClaim" -> BalanceAdd(balance, action.claim_fee)
      [] action.kind = "UndelegateClaim" ->
            BalanceAdd(BalanceSub(balance, action.unbonding), action.unbonded)
      [] action.kind = "ProposalSubmit" ->
            BalanceSub(balance, [asset_id |-> StakingToken, amount |-> action.deposit_amount])
      [] action.kind = "DelegatorVote" -> BalanceAdd(balance, action.receipt)
      [] OTHER -> balance

\* Planner::action
PlannerAction(p, action) ==
    [p EXCEPT !.balance = ActionBalance(@, action),
              !.plan.actions = Append(@, action)]

\* Planner::spend, Planner::output
PlannerSpend(p, note) == PlannerAction(p, [kind |-> "Spend", value |-> note])
PlannerOutput(p, value) == PlannerAction(p, [kind |-> "Output", value |-> value])

\* Planner::fee
PlannerFee(p, fee) ==
    [p EXCEPT !.balance = BalanceAdd(@, fee), !.plan.fee = Some(fee)]

\* Planner::swap_claim, undelegate_claim, proposal_submit, proposal_withdraw,
\* validator_vote and delegator_vote_precise
PlannerSwapClaim(p, plan) == PlannerAction(p, [kind |-> "SwapClaim", claim_fee |-> plan.claim_fee])
PlannerUndelegateClaim(p, claim_plan) ==
    PlannerAction(p, [kind |-> "UndelegateClaim", unbonding |-> claim_plan.unbonding,
                      unbonded |-> claim_plan.unbonded])
PlannerProposalSubmit(p, proposal, deposit_amount) ==
    PlannerAction(p, [kind |-> "ProposalSubmit", proposal |-> proposal,
                      deposit_amount |-> deposit_amount])
PlannerProposalWithdraw(p, proposal, reason) ==
    PlannerAction(p, [kind |-> "ProposalWithdraw", proposal |-> proposal, reason |-> reason])
PlannerValidatorVote(p, vote) == PlannerAction(p, [kind |-> "ValidatorVote", vote |-> vote])
PlannerDelegatorVotePrecise(p, proposal, vote, note, unbonded_amount) ==
    PlannerAction(p, [kind |-> "DelegatorVote", proposal |-> proposal, vote |-> vote,
                      receipt |-> [asset_id |-> note.asset_id, amount |-> unbonded_amount]])

\* TradingPair::new: the two assets in their canonical order
TradingPairNew(a, b) ==
    IF \E i, j \in DOMAIN AssetOrder : i <= j /\ AssetOrder[i] = a /\ AssetOrder[j] = b
    THEN <<a, b>> ELSE <<b, a>>

\* Planner::swap with every input counted as an input
PlannerSwapAnyInput(p, input_value, into_denom, swap_claim_fee) ==
    LET trading_pair == TradingPairNew(input_value.asset_id, into_denom)
        delta_1 == IF trading_pair[1] = input_value.asset_id THEN input_value.amount ELSE 0
        delta_2 == IF trading_pair[1] = input_value.asset_id THEN 0 ELSE input_value.amount
    IN  [p |-> PlannerAction(p, [kind |-> "Swap", trading_pair |-> trading_pair,
                                 delta_1 |-> delta_1, delta_2 |-> delta_2,
                                 claim_fee |-> swap_claim_fee]),
         err |-> ""]

\* Planner::swap: the planner it leaves and the error it returns, if any
PlannerSwap(p, input_value, into_denom, swap_claim_fee) ==
    LET trading_pair == TradingPairNew(input_value.asset_id, into_denom)
        delta_1 == IF trading_pair[1] = input_value.asset_id THEN input_value.amount ELSE 0
        delta_2 == IF trading_pair[1] = input_value.asset_id THEN 0 ELSE input_value.amount
    IN  IF delta_1 = 0 /\ delta_2 = 0
        THEN [p |-> p, err |-> "No input value for swap"]
        ELSE [p |-> PlannerAction(p, [kind |-> "Swap", trading_pair |-> trading_pair,
                                      delta_1 |-> delta_1, delta_2 |-> delta_2,
                                      claim_fee |-> swap_claim_fee]),
              err |-> ""]

\* Planner::memo
PlannerMemo(p, memo) == [p EXCEPT !.plan.memo_plan = Some(memo)]

RECURSIVE SpendAll(_, _)
SpendAll(p, notes) ==
    IF notes = <<>> THEN p
    ELSE SpendAll(PlannerSpend(p, Head(notes)), Tail(notes))

RECURSIVE OutputAll(_, _)
OutputAll(p, values) ==
    IF values = <<>> THEN p
    ELSE OutputAll(PlannerOutput(p, Head(values)), Tail(values))

\* TransactionPlan::num_outputs
NumOutputs(plan) ==
    Cardinality({i \in 1..Len(plan.actions) : plan.actions[i].kind = "Output"})

\* the planner emptied as the end of a successful call leaves it
PlannerCleared(p) ==
    [p EXCEPT !.balance = BalanceZero, !.vote_intents = {}, !.plan = PlanDefault]

\* Planner::plan_with_spendable_and_votable_notes: the planner it leaves and
\* what it returns
PlanWithSpendableAndVotableNotes(p, chain_id, spendable_notes) ==
    LET p1 == [p EXCEPT !.plan.chain_id = chain_id]
        p2 == SpendAll(p1, spendable_notes)
        p3 == OutputAll(p2, Provided(p2.balance))
        outputs == NumOutputs(p3.plan)
        p4 == IF outputs > 0 /\ p3.plan.memo_plan = None
              THEN PlannerMemo(p3, "") ELSE p3
        p5 == [p4 EXCEPT !.plan.clue_plans = outputs]
    IN IF outputs = 0 /\ p3.plan.memo_plan # None
       THEN [p |-> p3, result |-> [ok |-> FALSE, plan |-> PlanDefault,
                                   err |-> "if no outputs, no memo should be added"]]
       ELSE IF ~BalanceIsZero(p5.balance)
       THEN [p |-> p5, result |-> [ok |-> FALSE, plan |-> PlanDefault,
                                   err |-> "balance is non-zero"]]
       ELSE [p |-> PlannerCleared(p5),
             result |-> [ok |-> TRUE, plan |-> p5.plan, err |-> ""]]

\* a call of one of the planner's methods; the planner is re-used after a
\* call of plan_with_spendable_and_votable_notes has returned
PlannerCall(next) ==
    /\ planner.ncalls < MaxPlannerCalls
    /\ planner' = [p |-> next, ncalls |-> planner.ncalls + 1, result |-> None,
                   fees |-> planner.fees, err |-> ""]
    /\ UNCHANGED <<codec, nft>>
    /\ UNCHANGED notPure

CallOutput == \E value \in PlannerValues : PlannerCall(PlannerOutput(planner.p, value))

CallSpend == \E note \in PlannerValues : PlannerCall(PlannerSpend(planner.p, note))

CallFee ==
    \E fee \in PlannerValues :
        /\ planner.ncalls < MaxPlannerCalls
        /\ planner' = [p |-> PlannerFee(planner.p, fee), ncalls |-> planner.ncalls + 1,
                       result |-> None, fees |-> planner.fees + 1, err |-> ""]
        /\ UNCHANGED <<codec, nft>>
        /\ UNCHANGED notPure

\* the fee paid with a swap for its claim
ClaimFee == [asset_id |-> StakingToken, amount |-> 1]

CallSwap ==
    \E input_value \in [asset_id : Assets, amount : 0..1] :
        LET into_denom == CHOOSE a \in Assets : a # input_value.asset_id
            r == PlannerSwap(planner.p, input_value, into_denom, ClaimFee)
        IN  /\ planner.ncalls < MaxPlannerCalls
            /\ planner' = [p |-> r.p, ncalls |-> planner.ncalls + 1, result |-> None,
                           fees |-> planner.fees, err |-> r.err]
            /\ UNCHANGED <<codec, nft>>
            /\ UNCHANGED notPure

CallSwapClaim == PlannerCall(PlannerSwapClaim(planner.p, [claim_fee |-> ClaimFee]))

CallUndelegateClaim ==
    PlannerCall(PlannerUndelegateClaim(planner.p,
        [unbonding |-> [asset_id |-> "Y", amount |-> 1],
         unbonded |-> [asset_id |-> StakingToken, amount |-> 1]]))

CallProposalSubmit == PlannerCall(PlannerProposalSubmit(planner.p, 0, 1))

CallProposalWithdraw == PlannerCall(PlannerProposalWithdraw(planner.p, 0, "reason"))

CallValidatorVote == PlannerCall(PlannerValidatorVote(planner.p, "Yes"))

CallDelegatorVotePrecise ==
    PlannerCall(PlannerDelegatorVotePrecise(planner.p, 0, "Yes",
                                            [asset_id |-> "Y", amount |-> 1], 1))

CallMemo == PlannerCall(PlannerMemo(planner.p, "memo"))

NoteLists == {<<>>} \cup {<<v>> : v \in PlannerValues}

CallPlan ==
    \E spendable_notes \in NoteLists :
        LET r == PlanWithSpendableAndVotableNotes(planner.p, "penumbra-1", spendable_notes)
        IN /\ planner.ncalls < MaxPlannerCalls + 1
           /\ planner.result = None
           /\ planner' = [p |-> r.p, ncalls |-> planner.ncalls + 1, result |-> Some(r.result),
                          fees |-> IF r.result.ok THEN 0 ELSE planner.fees, err |-> ""]
           /\ UNCHANGED <<codec, nft>>
           /\ UNCHANGED notPure

PlannerNext ==
    \/ CallOutput
    \/ CallSpend
    \/ CallFee
    \/ CallMemo
    \/ CallPlan
    \/ CallSwap
    \/ CallSwapClaim
    \/ CallUndelegateClaim
    \/ CallProposalSubmit
    \/ CallProposalWithdraw
    \/ CallValidatorVote
    \/ CallDelegatorVotePrecise

(***************************************************************************)
(* The LPNFT denominations of crates/core/component/dex/src/lp/nft.rs.     *)
(* A string is the sequence of its characters.  A position id is a         *)
(* sequence of 5-bit groups, written in bech32m as the prefix plpid, the   *)
(* separator 1, one character per group and a checksum.                    *)
(***************************************************************************)
IdLen == 2

Lower ==
    {"a", "b", "c", "d", "e", "f", "g", "h", "i", "j", "k", "l", "m",
     "n", "o", "p", "q", "r", "s", "t", "u", "v", "w", "x", "y", "z"}
Upper ==
    {"A", "B", "C", "D", "E", "F", "G", "H", "I", "J", "K", "L", "M",
     "N", "O", "P", "Q", "R", "S", "T", "U", "V", "W", "X", "Y", "Z"}
Digits == {"0", "1", "2", "3", "4", "5", "6", "7", "8", "9"}

\* the character set of bech32
Bech32Charset ==
    <<"q", "p", "z", "r", "y", "9", "x", "8", "g", "f", "2", "t", "v", "d", "w", "0",
      "s", "3", "j", "n", "5", "4", "k", "h", "c", "e", "6", "m", "u", "a", "7", "l">>

Groups == 0..(Len(Bech32Charset) - 1)
PositionIds == [1..IdLen -> Groups]
PositionStates == {"Opened", "Closed", "Withdrawn", "Claimed"}

\* Display for position::State
StateDisplay(state) ==
    CASE state = "Opened" -> <<"o", "p", "e", "n", "e", "d">>
      [] state = "Closed" -> <<"c", "l", "o", "s", "e", "d">>
      [] state = "Withdrawn" -> <<"w", "i", "t", "h", "d", "r", "a", "w", "n">>
      [] state = "Claimed" -> <<"c", "l", "a", "i", "m", "e", "d">>

\* FromStr for position::State
StateFromStr(s) ==
    IF \E state \in PositionStates : StateDisplay(state) = s
    THEN [ok |-> TRUE, value |-> CHOOSE state \in PositionStates : StateDisplay(state) = s]
    ELSE [ok |-> FALSE, value |-> "unknown position state"]

RECURSIVE SumGroups(_)
SumGroups(gs) == IF gs = <<>> THEN 0 ELSE Head(gs) + SumGroups(Tail(gs))

\* the checksum group of a sequence of groups
Checksum(gs) == (SumGroups(gs) + 1) % Len(Bech32Charset)

PlpidPrefix == <<"p", "l", "p", "i", "d", "1">>
LpnftPrefix == <<"l", "p", "n", "f", "t", "_">>

\* Display for position::Id
IdDisplay(position_id) ==
    PlpidPrefix \o [i \in 1..Len(position_id) |-> Bech32Charset[position_id[i] + 1]]
        \o <<Bech32Charset[Checksum(position_id) + 1]>>

GroupOf(c) == CHOOSE g \in Groups : Bech32Charset[g + 1] = c

\* FromStr for position::Id
IdFromStr(s) ==
    LET n == Len(PlpidPrefix)
        data == SubSeq(s, n + 1, Len(s))
    IN IF Len(s) < n + 1 \/ SubSeq(s, 1, n) # PlpidPrefix
       THEN [ok |-> FALSE, value |-> "wrong prefix"]
       ELSE IF \E i \in DOMAIN data : \A g \in Groups : Bech32Charset[g + 1] # data[i]
       THEN [ok |-> FALSE, value |-> "invalid character"]
       ELSE LET gs == [i \in DOMAIN data |-> GroupOf(data[i])]
                id == SubSeq(gs, 1, Len(gs) - 1)
            IN IF gs[Len(gs)] # Checksum(id)
               THEN [ok |-> FALSE, value |-> "invalid checksum"]
               ELSE IF Len(id) # IdLen
               THEN [ok |-> FALSE, value |-> "wrong length"]
               ELSE [ok |-> TRUE, value |-> id]

\* the character classes of the regular expression of TryFrom<DenomMetadata>
StateClass == Lower
IdClassNoDigits == Lower \cup (Upper \ {"I", "O"})
IdClass == Lower \cup (Upper \ {"I", "O"}) \cup Digits

AllIn(s, class) == \A i \in DOMAIN s : s[i] \in class

\* the places where "^lpnft_(?P<state>[a-z]+)_(?P<id>plpid1[a-zA-HJ-NP-Z0-9]+)$"
\* can split s: the index of the underscore between the two groups
Splits(s) ==
    LET n == Len(LpnftPrefix)
        m == Len(PlpidPrefix)
    IN {i \in (n + 2)..(Len(s) - m - 1) :
           /\ SubSeq(s, 1, n) = LpnftPrefix
           /\ AllIn(SubSeq(s, n + 1, i - 1), StateClass)
           /\ s[i] = "_"
           /\ SubSeq(s, i + 1, i + m) = PlpidPrefix
           /\ AllIn(SubSeq(s, i + m + 1, Len(s)), IdClass)}

\* Regex::captures: None, or the groups state and id
Captures(s) ==
    IF Splits(s) = {} THEN None
    ELSE LET i == CHOOSE j \in Splits(s) : TRUE
         IN Some([state |-> SubSeq(s, Len(LpnftPrefix) + 1, i - 1),
                  id |-> SubSeq(s, i + 1, Len(s))])

\* asset::REGISTRY.parse_denom: the metadata of a base denomination the
\* registry knows, here the denominations that start with lpnft_
RegistryClass == Lower \cup Upper \cup Digits \cup {"_"}

ParseDenom(s) ==
    IF /\ Len(s) > Len(LpnftPrefix)
       /\ SubSeq(s, 1, Len(LpnftPrefix)) = LpnftPrefix
       /\ AllIn(s, RegistryClass)
    THEN Some([base_denom |-> s])
    ELSE None

\* Display for DenomMetadata
DenomToString(denom) == denom.base_denom

\* LpNft::new
LpNftNew(position_id, state) ==
    [position_id |-> position_id, state |-> state,
     base_denom |-> ParseDenom(LpnftPrefix \o StateDisplay(state) \o <<"_">>
                                   \o IdDisplay(position_id))[1]]

\* TryFrom<asset::DenomMetadata> for LpNft
LpNftTryFrom(base_denom) ==
    LET captures == Captures(DenomToString(base_denom))
    IN IF captures = None
       THEN [ok |-> FALSE, value |-> "base denom is not a delegation token"]
       ELSE LET position_id == IdFromStr(captures[1].id)
                state == StateFromStr(captures[1].state)
            IN IF ~position_id.ok THEN position_id
               ELSE IF ~state.ok THEN state
               ELSE [ok |-> TRUE,
                     value |-> [position_id |-> position_id.value, state |-> state.value,
                                base_denom |-> base_denom]]

\* Display for LpNft
LpNftDisplay(lpnft) == DenomToString(lpnft.base_denom)

\* FromStr for LpNft
LpNftFromStr(s) ==
    IF ParseDenom(s) = None THEN [ok |-> FALSE, value |-> "invalid denom string"]
    ELSE LpNftTryFrom(ParseDenom(s)[1])

\* PartialEq for LpNft
LpNftEq(a, b) == a.position_id = b.position_id /\ a.state = b.state

\* a position id and a state, before the LpNft is made of them
NftInputs == [stage : {"input"}, position_id : PositionIds, state : PositionStates]

NftFrame == UNCHANGED <<codec, planner>> /\ UNCHANGED notPure

\* let lpnft1 = LpNft::new(position_id, state)
NftNew ==
    /\ nft.stage = "input"
    /\ nft' = [stage |-> "new", position_id |-> nft.position_id, state |-> nft.state,
               lpnft |-> LpNftNew(nft.position_id, nft.state)]
    /\ NftFrame

\* LpNft::try_from(REGISTRY.parse_denom(&lpnft1.denom().to_string()).unwrap())
NftTryFrom ==
    /\ nft.stage = "new"
    /\ nft' = [stage |-> "try_from", position_id |-> nft.position_id, state |-> nft.state,
               lpnft |-> nft.lpnft,
               result |-> LET d == ParseDenom(DenomToString(nft.lpnft.base_denom))
                          IN IF d = None
                             THEN [ok |-> FALSE, value |-> "unwrap of None"]
                             ELSE LpNftTryFrom(d[1])]
    /\ NftFrame

\* lpnft1.to_string().parse()
NftFromStr ==
    /\ nft.stage = "new"
    /\ nft' = [stage |-> "from_str", position_id |-> nft.position_id, state |-> nft.state,
               lpnft |-> nft.lpnft, result |-> LpNftFromStr(LpNftDisplay(nft.lpnft))]
    /\ NftFrame

NftNext == NftNew \/ NftTryFrom \/ NftFromStr

(***************************************************************************)
(* Domain types and their protobuf forms: DomainType of                    *)
(* crates/proto/src/protobuf.rs, TransactionView of                        *)
(* crates/core/transaction/src/view.rs and Ics20Withdrawal of              *)
(* crates/core/component/ibc/src/ics20_withdrawal.rs.  A protobuf message  *)
(* is a record of its fields; an optional field is None or Some(m).  The   *)
(* bytes of a message are the fields that differ from their defaults.      *)
(***************************************************************************)
MaxActionViews == 2
MaxClues == 1
MaxCodecAmount == 1

Decoded(v) == [ok |-> TRUE, value |-> v]
Failed(e) == [ok |-> FALSE, value |-> e]

\* the conversions of the types whose fields are all scalars (Amount, Fee,
\* Address, tct::Root, TransactionParameters, Clue, MemoPlaintext,
\* MemoCiphertext, ActionView): the message that carries the value, and back
IntoProto(x) == [msg |-> x]
TryIntoDomain(m) == Decoded(m.msg)

\* prost::Message::encode_to_vec: a field equal to its default is not written
ProstEncode(m, defaults) == [f \in {g \in DOMAIN m : m[g] # defaults[g]} |-> m[f]]

\* prost::Message::decode: a field that was not written has its default
ProstDecode(bytes, defaults) ==
    [f \in DOMAIN defaults |-> IF f \in DOMAIN bytes THEN bytes[f] ELSE defaults[f]]

\* the length of the bytes of a binding signature
SigLen == 64

\* From<MemoView> for pbt::MemoView, writing every memo as an opaque one
MemoViewToProtoOpaque(v) ==
    [memo_view |-> Some([case |-> "Opaque",
                         ciphertext |-> Some(IntoProto(v.ciphertext))])]

\* From<MemoView> for pbt::MemoView
MemoViewToProto(v) ==
    [memo_view |->
        IF v.kind = "Visible"
        THEN Some([case |-> "Visible",
                   plaintext |-> Some(IntoProto(v.plaintext)),
                   ciphertext |-> Some(IntoProto(v.ciphertext))])
        ELSE Some([case |-> "Opaque",
                   ciphertext |-> Some(IntoProto(v.ciphertext))])]

\* From<TransactionBodyView> for pbt::TransactionBodyView
BodyViewToProto(v) ==
    [action_views |-> [i \in DOMAIN v.action_views |-> IntoProto(v.action_views[i])],
     transaction_parameters |-> Some(IntoProto(v.transaction_parameters)),
     fee |-> Some(IntoProto(v.fee)),
     detection_data |->
        IF v.detection_data = None THEN None
        ELSE Some([fmd_clues |-> [i \in DOMAIN v.detection_data[1].fmd_clues |->
                                     IntoProto(v.detection_data[1].fmd_clues[i])]]),
     memo_view |-> IF v.memo_view = None THEN None
                   ELSE Some(MemoViewToProto(v.memo_view[1]))]

\* From<TransactionView> for pbt::TransactionView
TransactionViewToProto(v) ==
    [body_view |-> Some(BodyViewToProto(v.body_view)),
     anchor |-> Some(IntoProto(v.anchor)),
     binding_sig |-> v.binding_sig]

\* the memo of TryFrom<pbt::TransactionBodyView>
BodyMemoView(memo_view) ==
    IF memo_view = None THEN Decoded(None)
    ELSE IF memo_view[1].memo_view = None THEN Decoded(None)
    ELSE LET x == memo_view[1].memo_view[1]
         IN IF x.case = "Visible"
            THEN IF x.plaintext = None
                 THEN Failed("transaction view memo missing memo plaintext")
                 ELSE IF x.ciphertext = None
                 THEN Failed("transaction view memo missing memo ciphertext")
                 ELSE Decoded(Some([kind |-> "Visible",
                               plaintext |-> TryIntoDomain(x.plaintext[1]).value,
                               ciphertext |-> TryIntoDomain(x.ciphertext[1]).value]))
            ELSE IF x.ciphertext = None
                 THEN Failed("transaction view memo missing memo ciphertext")
                 ELSE Decoded(Some([kind |-> "Opaque",
                               ciphertext |-> TryIntoDomain(x.ciphertext[1]).value]))

\* TryFrom<pbt::TransactionBodyView> for TransactionBodyView
BodyViewTryFrom(body_view) ==
    LET action_views ==
            [i \in DOMAIN body_view.action_views |->
                TryIntoDomain(body_view.action_views[i]).value]
        memo_view == BodyMemoView(body_view.memo_view)
        detection_data ==
            IF body_view.detection_data = None THEN None
            ELSE Some([fmd_clues |->
                          [i \in DOMAIN body_view.detection_data[1].fmd_clues |->
                              TryIntoDomain(body_view.detection_data[1].fmd_clues[i]).value]])
    IN IF body_view.fee = None THEN Failed("transaction view missing fee")
       ELSE IF ~memo_view.ok THEN memo_view
       ELSE IF body_view.transaction_parameters = None
       THEN Failed("transaction view missing transaction parameters view")
       ELSE Decoded([action_views |-> action_views,
                transaction_parameters |->
                    TryIntoDomain(body_view.transaction_parameters[1]).value,
                fee |-> TryIntoDomain(body_view.fee[1]).value,
                detection_data |-> detection_data,
                memo_view |-> memo_view.value])

\* TryFrom<pbt::TransactionView> for TransactionView
TransactionViewTryFrom(v) ==
    IF Len(v.binding_sig) # SigLen THEN Failed("transaction binding signature malformed")
    ELSE IF v.anchor = None THEN Failed("transaction view missing anchor")
    ELSE IF v.body_view = None THEN Failed("transaction view missing body")
    ELSE LET body_view == BodyViewTryFrom(v.body_view[1])
         IN IF ~body_view.ok THEN Failed("transaction body malformed")
            ELSE Decoded([body_view |-> body_view.value,
                     binding_sig |-> v.binding_sig,
                     anchor |-> TryIntoDomain(v.anchor[1]).value])

\* pbt::TransactionView::default(), pb::Ics20Withdrawal::default()
TransactionViewDefault == [body_view |-> None, anchor |-> None, binding_sig |-> <<>>]
Ics20WithdrawalDefault ==
    [amount |-> None, denom |-> None, destination_chain_address |-> "",
     return_address |-> None, timeout_height |-> 0, timeout_time |-> 0,
     source_channel |-> <<>>, source_port |-> ""]

\* Display and FromStr for ChannelId: the string channel-N as its two parts,
\* the empty string as <<>>
ChannelIdToString(c) == <<"channel", c>>
ChannelIdFromStr(s) ==
    IF Len(s) = 2 /\ s[1] = "channel" THEN Decoded(s[2]) ELSE Failed("invalid channel id")

\* Display and FromStr for PortId: a port id is a valid identifier
PortIds == {"transfer", "icahost"}
PortIdFromStr(s) == IF s \in PortIds THEN Decoded(s) ELSE Failed("invalid port id")

\* DenomMetadata::base_denom and DenomMetadata::default_for: the metadata of
\* a denomination is found from its base denomination
BaseDenom(denom) == [denom |-> denom.base]
DefaultFor(d) == IF d.denom = "" THEN None ELSE Some([base |-> d.denom])

\* From<Ics20Withdrawal> for pb::Ics20Withdrawal with the two timeouts
\* the wrong way round
WithdrawalToProtoSwapped(w) ==
    [amount |-> Some(IntoProto(w.amount)),
     denom |-> Some(BaseDenom(w.denom)),
     destination_chain_address |-> w.destination_chain_address,
     return_address |-> Some(IntoProto(w.return_address)),
     timeout_height |-> w.timeout_time,
     timeout_time |-> w.timeout_height,
     source_channel |-> ChannelIdToString(w.source_channel),
     source_port |-> w.source_port]

\* From<Ics20Withdrawal> for pb::Ics20Withdrawal
WithdrawalToProto(w) ==
    [amount |-> Some(IntoProto(w.amount)),
     denom |-> Some(BaseDenom(w.denom)),
     destination_chain_address |-> w.destination_chain_address,
     return_address |-> Some(IntoProto(w.return_address)),
     timeout_height |-> w.timeout_height,
     timeout_time |-> w.timeout_time,
     source_channel |-> ChannelIdToString(w.source_channel),
     source_port |-> w.source_port]

\* TryFrom<pb::Ics20Withdrawal> for Ics20Withdrawal
WithdrawalTryFrom(s) ==
    IF s.amount = None THEN Failed("missing amount")
    ELSE IF s.denom = None THEN Failed("missing denom metadata")
    ELSE IF DefaultFor(s.denom[1]) = None
    THEN Failed("could not generate default denom metadata")
    ELSE IF s.return_address = None THEN Failed("missing sender")
    ELSE IF ~ChannelIdFromStr(s.source_channel).ok THEN ChannelIdFromStr(s.source_channel)
    ELSE IF ~PortIdFromStr(s.source_port).ok THEN PortIdFromStr(s.source_port)
    ELSE Decoded([amount |-> TryIntoDomain(s.amount[1]).value,
             denom |-> DefaultFor(s.denom[1])[1],
             destination_chain_address |-> s.destination_chain_address,
             return_address |-> TryIntoDomain(s.return_address[1]).value,
             timeout_height |-> s.timeout_height,
             timeout_time |-> s.timeout_time,
             source_channel |-> ChannelIdFromStr(s.source_channel).value,
             source_port |-> PortIdFromStr(s.source_port).value])

\* DomainType::to_proto, and the defaults of the protobuf type
ToProto(type, value) ==
    IF type = "TransactionView" THEN TransactionViewToProto(value)
    ELSE WithdrawalToProto(value)

ProtoDefault(type) ==
    IF type = "TransactionView" THEN TransactionViewDefault ELSE Ics20WithdrawalDefault

\* DomainType::encode_to_vec
EncodeToVec(type, value) == ProstEncode(ToProto(type, value), ProtoDefault(type))

\* DomainType::decode
Decode(type, buf) ==
    LET proto == ProstDecode(buf, ProtoDefault(type))
    IN IF type = "TransactionView" THEN TransactionViewTryFrom(proto)
       ELSE WithdrawalTryFrom(proto)

\* the domain values that are encoded
ActionViewLists ==
    UNION {[1..n -> {"Spend", "Output"}] : n \in 0..MaxActionViews}
ClueLists == UNION {[1..n -> {"clue"}] : n \in 0..MaxClues}
MemoViews ==
    {[kind |-> "Visible", plaintext |-> "hello", ciphertext |-> "c1"],
     [kind |-> "Opaque", ciphertext |-> "c1"]}

TransactionBodyViews ==
    [action_views : ActionViewLists,
     transaction_parameters : {[expiry_height |-> 0, chain_id |-> ""],
                               [expiry_height |-> 5, chain_id |-> "penumbra-1"]},
     fee : 0..MaxCodecAmount,
     detection_data : {None} \cup {Some([fmd_clues |-> c]) : c \in ClueLists},
     memo_view : {None} \cup {Some(m) : m \in MemoViews}]

TransactionViews ==
    [body_view : TransactionBodyViews, binding_sig : {[i \in 1..SigLen |-> 7]}, anchor : {"root"}]

CodecWithdrawals ==
    [amount : 0..MaxCodecAmount, denom : {[base |-> "upenumbra"], [base |-> "ugm"]},
     destination_chain_address : {"", "cosmos1x"}, return_address : {"addr"},
     timeout_height : 0..1, timeout_time : 0..1,
     source_port : PortIds, source_channel : 0..1]

CodecInputs ==
    [stage : {"value"}, type : {"TransactionView"}, value : TransactionViews]
        \cup [stage : {"value"}, type : {"Ics20Withdrawal"}, value : CodecWithdrawals]

CodecFrame == UNCHANGED <<nft, planner>> /\ UNCHANGED notPure

\* let bytes = x.encode_to_vec()
CodecEncode ==
    /\ codec.stage = "value"
    /\ codec' = [stage |-> "bytes", type |-> codec.type, value |-> codec.value,
                 bytes |-> EncodeToVec(codec.type, codec.value)]
    /\ CodecFrame

\* T::decode(bytes)
CodecDecode ==
    /\ codec.stage = "bytes"
    /\ codec' = [stage |-> "decoded", type |-> codec.type, value |-> codec.value,
                 bytes |-> codec.bytes, result |-> Decode(codec.type, codec.bytes)]
    /\ CodecFrame

CodecNext == CodecEncode \/ CodecDecode

\* no value is being converted
CodecIdle == codec = [stage |-> "idle"]
NftIdle == nft = [stage |-> "idle"]

\* no call is being made and pcli is not running
FmdIdle == fmd = [stage |-> "idle"]
RatioIdle == ratio = [stage |-> "idle"]
PcliIdle == pcli = [stage |-> "idle"]
CallsIdle == FmdIdle /\ RatioIdle /\ PcliIdle

Procs == {1, 2}

\* SnapshotCache::new(latest_snapshot, 10)
CacheSize == 10

\* SnapshotCache::latest
Latest(cache) == cache[1]

\* Storage::latest_version
LatestVersion == Latest(snapshots)

CachedVersions == {snapshots[i] : i \in 1..Len(snapshots)}

\* Storage::snapshot(version): the cached snapshot of that version, if any
StorageSnapshot(version) == IF version \in CachedVersions THEN Some(version) ELSE None

\* try_push with a successor that does not wrap: nothing follows u64::MAX
TryPushNoWrap(cache, version) ==
    IF Latest(cache) = U64Max \/ WrappingAdd1(Latest(cache)) # version
    THEN [ok |-> FALSE, cache |-> cache]
    ELSE [ok |-> TRUE,
          cache |-> <<version>> \o
                    (IF Len(cache) >= CacheSize THEN SubSeq(cache, 1, Len(cache) - 1) ELSE cache)]

\* try_push into a cache that never drops a snapshot
TryPushNoEvict(cache, version) ==
    IF WrappingAdd1(Latest(cache)) # version
    THEN [ok |-> FALSE, cache |-> cache]
    ELSE [ok |-> TRUE, cache |-> <<version>> \o cache]

\* SnapshotCache::try_push: only the version after the latest is accepted;
\* a full cache drops its oldest snapshot
TryPush(cache, version) ==
    IF WrappingAdd1(Latest(cache)) # version
    THEN [ok |-> FALSE, cache |-> cache]
    ELSE [ok |-> TRUE,
          cache |-> <<version>> \o
                    (IF Len(cache) >= CacheSize THEN SubSeq(cache, 1, Len(cache) - 1) ELSE cache)]

ReadAll(d, version) == [k \in Keys |-> SnapshotGet(d, version, k)]

\* the content after the puts and deletes of a StateDelta
ApplyWrites(c, changes) == [k \in Keys |-> IF k \in DOMAIN changes THEN changes[k] ELSE c[k]]

IdleTask ==
    [pc |-> "idle", base |-> U64Max, changes |-> EmptyMap, nv |-> EmptyMap,
     old_version |-> U64Max, new_version |-> U64Max, snap |-> U64Max,
     batch |-> <<>>, root_hash |-> {}, result |-> "none"]

\* a task whose call of Storage::commit has returned
Done(result) == [IdleTask EXCEPT !.result = result]

\* Storage::load on a fresh database
StorageInit ==
    /\ db = EmptyDb
    /\ snapshots = <<U64Max>>
    /\ state_tx = [value |-> U64Max, sends |-> 0]
    /\ task = [p \in Procs |-> IdleTask]
    /\ ncommits = 0
    /\ nfaults = 0
    /\ published = [v \in {U64Max} |-> ReadAll(EmptyDb, U64Max)]
    /\ committed_db = EmptyDb
    /\ content = [v \in {U64Max} |-> [k \in Keys |-> None]]
    /\ written_at = [v \in {U64Max} |-> EmptyMap]
    /\ receivers = <<>>

(***************************************************************************)
(* The StateDeltas a caller may build: puts and deletes of verifiable keys *)
(* and of nonverifiable keys.                                              *)
(***************************************************************************)
OptionOf(S) == {None} \cup {Some(v) : v \in S}

MapsOver(D, R) == UNION {[S -> R] : S \in SUBSET D}

\* a delta without verifiable change, every put and delete of "a" alone, a
\* put of "b" alone, and one change of both keys
UnwrittenChoices ==
    {m \in MapsOver(Keys, OptionOf(Values)) :
        "b" \in DOMAIN m =>
              (m["b"] = Some(1) /\ ("a" \in DOMAIN m => m["a"] = Some(2)))}
NonverifiableChoices == MapsOver(NvKeys, OptionOf(NvValues))

\* the deltas: nonverifiable changes come with a put of "a" or with no
\* verifiable change, and a delta without verifiable change makes a
\* nonverifiable put
DeltaChoices ==
    {d \in UnwrittenChoices \X NonverifiableChoices :
        /\ d[2] # EmptyMap => (d[1] = EmptyMap \/ d[1] = MapPut(EmptyMap, "a", Some(1)))
        /\ d[1] = EmptyMap => (d[2] # EmptyMap /\ d[2]["n"] # None)}

SortedKeys(order, m) == SelectSeq(order, LAMBDA k : k \in DOMAIN m)

\* the version check of Storage::commit, with the check left out
VersionMatchesAlways(old_version, snapshot_version) == TRUE

\* the version check of Storage::commit with < in place of !=: only a delta
\* forked from a version after the latest one is refused
VersionNotNewer(old_version, snapshot_version) ==
    LexLeq(ToBeBytes(snapshot_version), ToBeBytes(old_version))

\* the version check of Storage::commit
VersionMatches(old_version, snapshot_version) == old_version = snapshot_version

\* Storage::commit(delta) up to the call of commit_inner, on a StateDelta
\* forked from a snapshot the caller holds (any version published so far)
\* and filled with the caller's puts and deletes
Commit(p) ==
    /\ task[p].pc = "idle"
    /\ ncommits < MaxCommits
    /\ \E base \in DOMAIN published, d \in DeltaChoices :
          LET ch == d[1]
              nv == d[2]
              old_version == LatestVersion
              new_version == WrappingAdd1(old_version)
              t == [IdleTask EXCEPT !.base = base, !.changes = ch, !.nv = nv,
                                    !.old_version = old_version,
                                    !.new_version = new_version]
          IN  IF ~VersionMatches(old_version, base)
              THEN \* the error names both versions
                   task' = [task EXCEPT ![p] = [Done("VersionMismatch") EXCEPT
                                                   !.base = base,
                                                   !.old_version = old_version]]
              ELSE task' = [task EXCEPT ![p] = [t EXCEPT !.pc = "inner"]]
    /\ ncommits' = ncommits + 1
    /\ UNCHANGED <<db, snapshots, state_tx, nfaults, published, committed_db, content, written_at, receivers>>
    /\ UNCHANGED notStorage

(***************************************************************************)
(* commit_inner: the blocking task.  Its writes are single put_cf and      *)
(* delete_cf calls, each of which may fail; an error (the ? operator)      *)
(* ends the task with the writes made so far left in the database.         *)
(***************************************************************************)
\* a loop of writes: all of them, or an error at one of them after the
\* writes before it
WriteLoop(p, ops, nextpc) ==
    \/ /\ db' = ApplyOps(db, ops, Len(ops))
       /\ task' = [task EXCEPT ![p].pc = nextpc]
       /\ UNCHANGED nfaults
    \/ /\ nfaults < MaxFaults
       /\ \E n \in 0..(Len(ops) - 1) : db' = ApplyOps(db, ops, n)
       /\ task' = [task EXCEPT ![p] = Done("IoError")]
       /\ nfaults' = nfaults + 1

\* the unwritten changes with their key hashes, in key order
UnwrittenChanges(changes) ==
    LET ks == SortedKeys(KeyOrder, changes)
    IN  [i \in 1..Len(ks) |-> <<KeyHash(ks[i]), ks[i], changes[ks[i]]>>]

\* the writes of the two-way index of keys and key hashes
KeyIndexOps(changes) ==
    LET uc == UnwrittenChanges(changes)
    IN  Flatten([i \in 1..Len(uc) |->
            IF uc[i][3] # None
            THEN <<PutOp("jmt_keys", uc[i][2], uc[i][1]),
                   PutOp("jmt_keys_by_keyhash", uc[i][1], uc[i][2])>>
            ELSE <<DelOp("jmt_keys", uc[i][2]),
                   DelOp("jmt_keys_by_keyhash", uc[i][1])>>])

\* commit_inner: take the latest snapshot, hash the keys, write the key index
CommitInnerKeys(p) ==
    /\ task[p].pc = "inner"
    /\ \E t \in {[task EXCEPT ![p].snap = LatestVersion]} :
          \/ /\ db' = ApplyOps(db, KeyIndexOps(task[p].changes), Len(KeyIndexOps(task[p].changes)))
             /\ task' = [t EXCEPT ![p].pc = "tree"]
             /\ UNCHANGED nfaults
          \/ /\ nfaults < MaxFaults
             /\ \E n \in 0..(Len(KeyIndexOps(task[p].changes)) - 1) :
                   db' = ApplyOps(db, KeyIndexOps(task[p].changes), n)
             /\ task' = [t EXCEPT ![p] = Done("IoError")]
             /\ nfaults' = nfaults + 1
    /\ UNCHANGED <<snapshots, state_tx, ncommits, published, committed_db, content, written_at, receivers>>
    /\ UNCHANGED notStorage

\* commit_inner: jmt.put_value_set(unwritten_changes, new_version)
CommitInnerPutValueSet(p) ==
    /\ task[p].pc = "tree"
    /\ LET uc == UnwrittenChanges(task[p].changes)
           r == PutValueSet(db, [i \in 1..Len(uc) |-> <<uc[i][1], uc[i][3]>>],
                            task[p].new_version)
       IN  IF r.ok
           THEN task' = [task EXCEPT ![p].pc = "batch", ![p].batch = r,
                                     ![p].root_hash = r.root_hash]
           ELSE task' = [task EXCEPT ![p] = Done("TreeError")]
    /\ UNCHANGED <<db, snapshots, state_tx, ncommits, nfaults, published, committed_db, content, written_at, receivers>>
    /\ UNCHANGED notStorage

\* the writes of Inner::write_node_batch: the nodes, then the values
NodeBatchOps(batch) ==
    [i \in 1..Len(batch.nodes) |->
        PutOp("jmt", DbNodeKeyEncode(batch.nodes[i][1], batch.nodes[i][2]), batch.nodes[i][3])]
    \o
    [i \in 1..Len(batch.values) |->
        PutOp("jmt_values",
              VersionedKeyHashEncode(batch.values[i][1], batch.values[i][2]),
              BorshOption(batch.values[i][3]))]

\* Inner::write_node_batch
WriteNodeBatch(p) ==
    /\ task[p].pc = "batch"
    /\ WriteLoop(p, NodeBatchOps(task[p].batch), "nonverifiable")
    /\ UNCHANGED <<snapshots, state_tx, ncommits, published, committed_db, content, written_at, receivers>>
    /\ UNCHANGED notStorage

\* the nonverifiable changes written into the column family of tree values
NonverifiableOpsInTree(nv) ==
    LET ks == SortedKeys(NvKeyOrder, nv)
    IN  [i \in 1..Len(ks) |->
            PutOp("jmt_values", VersionedKeyHashEncode(U64Zero, KeyHash(ks[i])),
                  BorshOption(nv[ks[i]]))]

\* the writes of the nonverifiable changes
NonverifiableOps(nv) ==
    LET ks == SortedKeys(NvKeyOrder, nv)
    IN  [i \in 1..Len(ks) |->
            IF nv[ks[i]] # None
            THEN PutOp("nonverifiable", ks[i], nv[ks[i]][1])
            ELSE DelOp("nonverifiable", ks[i])]

\* commit_inner: write the nonverifiable changes
CommitInnerNonverifiable(p) ==
    /\ task[p].pc = "nonverifiable"
    /\ WriteLoop(p, NonverifiableOps(task[p].nv), "push")
    /\ UNCHANGED <<snapshots, state_tx, ncommits, published, committed_db, content, written_at, receivers>>
    /\ UNCHANGED notStorage

\* commit_inner: Snapshot::new and try_push(...).expect(...): a push that is
\* refused panics the task
CommitInnerPush(p) ==
    /\ task[p].pc = "push"
    /\ LET r == TryPush(snapshots, task[p].new_version)
       IN  IF r.ok
           THEN /\ snapshots' = r.cache
                /\ task' = [task EXCEPT ![p].pc = "send"]
                /\ published' = [v \in DOMAIN published \cup {task[p].new_version} |->
                                    IF v = task[p].new_version
                                    THEN ReadAll(db, v) ELSE published[v]]
                /\ committed_db' = db
                /\ content' = [v \in DOMAIN content \cup {task[p].new_version} |->
                                  IF v = task[p].new_version
                                  THEN ApplyWrites(content[task[p].old_version], task[p].changes)
                                  ELSE content[v]]
                /\ written_at' = [v \in DOMAIN written_at \cup {task[p].new_version} |->
                                     IF v = task[p].new_version THEN task[p].changes
                                     ELSE written_at[v]]
           ELSE /\ task' = [task EXCEPT ![p] = Done("Panic")]
                /\ UNCHANGED <<snapshots, published, committed_db, content, written_at>>
    /\ UNCHANGED <<db, state_tx, ncommits, nfaults, receivers>>
    /\ UNCHANGED notStorage

\* watch::Sender::subscribe: a receiver that has seen the current value and
\* is notified of the values sent from now on
WatchSubscribeReplay(sender, rs) ==
    Append(rs, [since |-> sender.sends, notified |-> <<sender.value>>])

WatchSubscribe(sender, rs) == Append(rs, [since |-> sender.sends, notified |-> <<>>])

\* watch::Sender::send: every receiver is notified of the value (an error,
\* dropped by the caller, when there is no receiver)
WatchSend(rs, version) ==
    [i \in 1..Len(rs) |-> [rs[i] EXCEPT !.notified = Append(@, version)]]

\* commit_inner: state_tx.send(latest_snapshot), then Ok(root_hash)
CommitInnerSend(p) ==
    /\ task[p].pc = "send"
    /\ state_tx' = [value |-> task[p].new_version, sends |-> state_tx.sends + 1]
    /\ receivers' = WatchSend(receivers, task[p].new_version)
    /\ task' = [task EXCEPT ![p] = Done("Ok")]
    /\ UNCHANGED <<db, snapshots, ncommits, nfaults, published, committed_db, content, written_at>>
    /\ UNCHANGED notStorage

InFlight(p) == task[p].pc \in {"inner", "tree", "batch", "nonverifiable", "push", "send"}

(***************************************************************************)
(* Storage::load on a database that has been written: the version is read  *)
(* back from the last key of the jmt column family.                        *)
(***************************************************************************)
\* the version in the first eight bytes of an encoded DbNodeKey
DbNodeKeyVersion(k) ==
    <<k[1] * 256 + k[2], k[3] * 256 + k[4], k[5] * 256 + k[6], k[7] * 256 + k[8]>>

\* iter.seek_to_last() on the jmt column family: the greatest key
SeekToLast(cf) == CHOOSE k \in DOMAIN cf : \A j \in DOMAIN cf : LexLeq(j, k)

\* get_rightmost_leaf, then latest_version: the version of the last node of
\* the jmt column family if that node is a leaf
LatestVersionOfDb(d) ==
    IF DOMAIN d.jmt = {} THEN None
    ELSE LET k == SeekToLast(d.jmt)
         IN  IF d.jmt[k].kind = "Leaf" THEN Some(DbNodeKeyVersion(k)) ELSE None

\* Storage::load when no commit is running: a new Inner on the same database
StorageLoad ==
    /\ \A p \in Procs : task[p].pc = "idle"
    /\ LET found == LatestVersionOfDb(db)
           jmt_version == IF found = None THEN U64Max ELSE found[1]
       IN  /\ snapshots' = <<jmt_version>>
           /\ state_tx' = [value |-> jmt_version, sends |-> 0]
    /\ receivers' = <<>>
    /\ UNCHANGED <<db, task, ncommits, nfaults, published, committed_db, content, written_at>>
    /\ UNCHANGED notStorage

(***************************************************************************)
(* The SwapClaim action handler and the pipeline that drives it.  A state  *)
(* is what check_stateful reads and execute writes: the nullifier set, the *)
(* batch swap output data by (height, trading pair), the rolled-up note    *)
(* payloads and the events.                                                *)
(***************************************************************************)
\* blocks in one behaviour
MaxHeight == 2
\* transactions delivered in one behaviour
MaxTxs == 2
\* actions in one transaction
MaxActions == 2

\* the chain parameter epoch_duration
EpochDuration == 719

Nullifiers == {"n1", "n2"}
TradingPairs == {"XY", "YZ"}
Amounts == {0, 1}
Heights == 1..MaxHeight

AmountFields == {"delta_1", "delta_2", "lambda_1", "lambda_2", "unfilled_1", "unfilled_2"}
OutputDataFields == AmountFields \cup {"height", "trading_pair", "epoch_height"}

FieldDomain(f) ==
    IF f = "height" THEN Heights
    ELSE IF f = "trading_pair" THEN TradingPairs
    ELSE Amounts

\* the BatchSwapOutputData batch execution may record at height h
RecordedAt(h) ==
    {[height |-> h, trading_pair |-> "XY", delta_1 |-> d, delta_2 |-> 0,
      lambda_1 |-> 0, lambda_2 |-> 0, unfilled_1 |-> 0, unfilled_2 |-> 0,
      epoch_height |-> 0] : d \in Amounts}

\* the output data a claim may embed: a record of some height, or such a
\* record with one field changed
ClaimedOutputData ==
    UNION {{r} \cup UNION {{[r EXCEPT ![f] = x] : x \in FieldDomain(f)} : f \in OutputDataFields}
           : r \in UNION {RecordedAt(h) : h \in Heights}}

\* the SwapClaim actions a transaction may carry: the chain's epoch duration
\* with any of these output data, or another epoch duration with a record
\* of some height
SwapClaims ==
    [nullifier : Nullifiers, epoch_duration : {EpochDuration},
     output_data : ClaimedOutputData]
    \cup
    [nullifier : Nullifiers, epoch_duration : {EpochDuration + 1},
     output_data : UNION {RecordedAt(h) : h \in Heights}]

GenesisState ==
    [spent |-> EmptyMap, marks |-> [n \in Nullifiers |-> 0], payloads |-> {},
     events |-> 0, output_data |-> EmptyMap]

\* StateReadExt::get_epoch_duration
GetEpochDuration(st) == EpochDuration

\* StateReadExt::output_data(height, trading_pair)
OutputData(st, height, trading_pair) ==
    IF <<height, trading_pair>> \in DOMAIN st.output_data
    THEN Some(st.output_data[<<height, trading_pair>>])
    ELSE None

\* StateReadExt::check_nullifier_unspent: Ok (TRUE) unless the nullifier is
\* in the spent set
CheckNullifierUnspent(st, nullifier) == nullifier \notin DOMAIN st.spent

\* NoteManager::spend_nullifier: mark the nullifier spent by `source`
SpendNullifier(st, nullifier, source) ==
    [st EXCEPT !.spent = MapPut(@, nullifier, source),
               !.marks = [@ EXCEPT ![nullifier] = @ + 1]]

\* NoteManager::add_rolled_up_payload
AddRolledUpPayload(st, commitment) == [st EXCEPT !.payloads = @ \cup {commitment}]

\* the two output note commitments of a claim
OutputCommitment(claim, i) == <<claim.nullifier, claim.output_data.height, i>>

\* the comparison of the output data with only the key fields compared
OutputDataKeyDiffers(recorded, claimed) ==
    recorded.height # claimed.height \/ recorded.trading_pair # claimed.trading_pair

\* output_data != swap_claim.body.output_data: some field differs
OutputDataDiffers(recorded, claimed) ==
    \E f \in OutputDataFields : recorded[f] # claimed[f]

\* SwapClaim::check_stateful without its third check
CheckStatefulNoNullifier(st, claim) ==
    IF GetEpochDuration(st) # claim.epoch_duration THEN "EpochDurationMismatch"
    ELSE LET od == OutputData(st, claim.output_data.height, claim.output_data.trading_pair)
         IN  IF od = None THEN "OutputDataNotFound"
             ELSE IF OutputDataDiffers(od[1], claim.output_data) THEN "OutputDataMismatch"
             ELSE "Ok"

\* SwapClaim::check_stateful with a missing record taken as a match
CheckStatefulNoLookup(st, claim) ==
    IF GetEpochDuration(st) # claim.epoch_duration THEN "EpochDurationMismatch"
    ELSE LET od == OutputData(st, claim.output_data.height, claim.output_data.trading_pair)
         IN  IF od # None /\ OutputDataDiffers(od[1], claim.output_data)
             THEN "OutputDataMismatch"
             ELSE IF ~CheckNullifierUnspent(st, claim.nullifier) THEN "NullifierSpent"
             ELSE "Ok"

\* SwapClaim::check_stateful without the check of the epoch duration
CheckStatefulNoEpoch(st, claim) ==
    LET od == OutputData(st, claim.output_data.height, claim.output_data.trading_pair)
    IN  IF od = None THEN "OutputDataNotFound"
        ELSE IF OutputDataDiffers(od[1], claim.output_data) THEN "OutputDataMismatch"
        ELSE IF ~CheckNullifierUnspent(st, claim.nullifier) THEN "NullifierSpent"
        ELSE "Ok"

\* SwapClaim::check_stateful: the epoch duration, the output data, the
\* nullifier, in this order; the first failing check is the error
SwapClaimCheckStateful(st, claim) ==
    IF GetEpochDuration(st) # claim.epoch_duration THEN "EpochDurationMismatch"
    ELSE LET od == OutputData(st, claim.output_data.height, claim.output_data.trading_pair)
         IN  IF od = None THEN "OutputDataNotFound"
             ELSE IF OutputDataDiffers(od[1], claim.output_data) THEN "OutputDataMismatch"
             ELSE IF ~CheckNullifierUnspent(st, claim.nullifier) THEN "NullifierSpent"
             ELSE "Ok"

\* SwapClaim::execute without spend_nullifier
ExecuteNoSpend(st, claim, source) ==
    [AddRolledUpPayload(AddRolledUpPayload(st, OutputCommitment(claim, 1)),
                        OutputCommitment(claim, 2))
        EXCEPT !.events = @ + 1]

\* SwapClaim::execute: the two payloads, the nullifier, the event
SwapClaimExecute(st, claim, source) ==
    [SpendNullifier(
        AddRolledUpPayload(AddRolledUpPayload(st, OutputCommitment(claim, 1)),
                           OutputCommitment(claim, 2)),
        claim.nullifier, source)
        EXCEPT !.events = @ + 1]

NoClaim ==
    [nullifier |-> "none", epoch_duration |-> 0,
     output_data |-> [f \in OutputDataFields |-> 0]]

NoTx == [pc |-> "none", st |-> GenesisState, n |-> 0, cur |-> NoClaim, result |-> "none"]

DexInit ==
    /\ chain = GenesisState
    /\ block = GenesisState
    /\ tx = NoTx
    /\ block_height = 1
    /\ ntxs = 0

\* the state the current action reads and writes: the transaction's delta
\* when one is running, else the block's state
View == IF tx.pc \in {"checked", "next"} THEN tx.st ELSE block

\* the pipeline runs check_stateful on the next action of the current
\* transaction (or the first action of a new one) against the current
\* Snapshot+Delta; a failure discards the transaction's delta
DeliverCheckStateful ==
    /\ tx.pc \in {"none", "next"}
    /\ tx.pc = "none" => ntxs < MaxTxs
    /\ tx.pc = "next" => tx.n < MaxActions
    /\ \E claim \in SwapClaims :
          LET r == SwapClaimCheckStateful(View, claim)
          IN  tx' = IF r = "Ok"
                    THEN [pc |-> "checked", st |-> View, n |-> IF tx.pc = "none" THEN 0 ELSE tx.n,
                          cur |-> claim, result |-> r]
                    ELSE [NoTx EXCEPT !.cur = claim, !.result = r]
    /\ ntxs' = IF tx.pc = "none" THEN ntxs + 1 ELSE ntxs
    /\ UNCHANGED <<chain, block, block_height>>
    /\ UNCHANGED notDex

\* the pipeline runs execute on the action whose check_stateful passed
DeliverExecute ==
    /\ tx.pc = "checked"
    /\ tx' = [tx EXCEPT !.pc = "next", !.n = @ + 1,
                        !.st = SwapClaimExecute(tx.st, tx.cur, ntxs)]
    /\ UNCHANGED <<chain, block, block_height, ntxs>>
    /\ UNCHANGED notDex

\* the transaction is over: its delta is applied to the block's state
DeliverEnd ==
    /\ tx.pc = "next"
    /\ block' = tx.st
    /\ tx' = NoTx
    /\ UNCHANGED <<chain, block_height, ntxs>>
    /\ UNCHANGED notDex

\* end of block: batch execution records the output data of this height,
\* and the block's state is committed
EndBlock ==
    /\ tx.pc = "none"
    /\ block_height <= MaxHeight
    /\ \E r \in RecordedAt(block_height) :
          LET st == [block EXCEPT !.output_data = MapPut(@, <<block_height, r.trading_pair>>, r)]
          IN  chain' = st /\ block' = st
    /\ block_height' = block_height + 1
    /\ tx' = NoTx
    /\ UNCHANGED ntxs
    /\ UNCHANGED notDex

DexNext ==
    \/ DeliverCheckStateful
    \/ DeliverExecute
    \/ DeliverEnd
    \/ EndBlock

(***************************************************************************)
(* The DelegatorVote action handler.  The governance state is what its     *)
(* checks read and its execute writes.                                     *)
(***************************************************************************)
\* blocks in one behaviour of the governance component
MaxGovHeight == 1
\* DelegatorVotes delivered in one behaviour
MaxVotes == 2

Proposals == {1, 2}
\* a tree position: the block (with its epoch) and the commitment index
Positions == [blk : 0..MaxGovHeight, commitment : 0..1]
PositionValue(pos) == pos.blk * LimbBase + pos.commitment
DelegationAssets == {"delegation_v1", "upenumbra"}
\* the exchange rate of the validator, snapshotted when a proposal starts
RateAtStart == 2

\* the start positions a vote may claim: the first position of a block, or
\* one position that is not the first of its block
StartPositions ==
    {pos \in Positions : pos.commitment = 0 \/ pos.blk = 0}

\* a well-formed vote's signature, asset and unbonded amount, and the three
\* ways for one of them to be wrong
VoteCredentials ==
    {[auth_sig_ok |-> TRUE, asset_id |-> "delegation_v1", unbonded_amount |-> 2],
     [auth_sig_ok |-> FALSE, asset_id |-> "delegation_v1", unbonded_amount |-> 2],
     [auth_sig_ok |-> TRUE, asset_id |-> "upenumbra", unbonded_amount |-> 2],
     [auth_sig_ok |-> TRUE, asset_id |-> "delegation_v1", unbonded_amount |-> 3]}

\* the DelegatorVotes a transaction may carry; the proof holds, as its
\* witness, the position of the note voted with
DelegatorVotes ==
    {[proposal |-> p, nullifier |-> n, start_position |-> sp, note_position |-> np,
      asset_id |-> c.asset_id, amount |-> 1, unbonded_amount |-> c.unbonded_amount,
      auth_sig_ok |-> c.auth_sig_ok] :
        p \in Proposals, n \in Nullifiers, sp \in StartPositions, np \in Positions,
        c \in VoteCredentials}

GovGenesis ==
    [height |-> 0, proposals |-> EmptyMap, spent_at |-> EmptyMap, voted |-> {},
     tally |-> <<>>]

\* the last constraint of the circuit with the equality allowed
PositionNotAfter(note_position, start_position) ==
    PositionValue(note_position) <= PositionValue(start_position)

\* DelegatorVoteCircuit: delegator_position.enforce_cmp(start_position, Less, false)
PositionBefore(note_position, start_position) ==
    PositionValue(note_position) < PositionValue(start_position)

\* DelegatorVoteCircuit::generate_constraints: the constraints on the public
\* input start_position and the witnessed note position
CircuitSatisfied(note_position, start_position) ==
    /\ start_position.commitment = 0
    /\ PositionBefore(note_position, start_position)

\* DelegatorVote::check_stateless: the signature, then the proof
DelegatorVoteCheckStateless(v) ==
    IF ~v.auth_sig_ok THEN "BadSignature"
    ELSE IF ~CircuitSatisfied(v.note_position, v.start_position) THEN "BadProof"
    ELSE "Ok"

\* StateReadExt::check_proposal_votable
CheckProposalVotable(st, proposal) ==
    proposal \in DOMAIN st.proposals /\ st.proposals[proposal].state = "Voting"

\* StateReadExt::check_proposal_started_at_position
CheckProposalStartedAtPosition(st, proposal, start_position) ==
    st.proposals[proposal].start_position = start_position

\* StateReadExt::check_nullifier_unspent_before_start_block_height
CheckNullifierUnspentBeforeStart(st, proposal, nullifier) ==
    nullifier \in DOMAIN st.spent_at =>
        st.spent_at[nullifier] >= st.proposals[proposal].start_height

\* StateReadExt::check_nullifier_unvoted_for_proposal
CheckNullifierUnvoted(st, proposal, nullifier) == <<proposal, nullifier>> \notin st.voted

\* StateReadExt::validator_by_delegation_asset: fallible
ValidatorByDelegationAsset(st, asset_id) ==
    IF asset_id = "delegation_v1" THEN Some("validator_1") ELSE None

\* StateReadExt::check_unbonded_amount_correct_exchange_for_proposal
CheckUnbondedAmountCorrect(st, proposal, asset_id, amount, unbonded_amount) ==
    /\ ValidatorByDelegationAsset(st, asset_id) # None
    /\ unbonded_amount = amount * st.proposals[proposal].rate

\* DelegatorVote::check_stateful without the check of the proposal's votes
VoteCheckStatefulNoUnvoted(st, v) ==
    IF ~CheckProposalVotable(st, v.proposal) THEN "ProposalNotVotable"
    ELSE IF ~CheckProposalStartedAtPosition(st, v.proposal, v.start_position)
    THEN "WrongStartPosition"
    ELSE IF ~CheckNullifierUnspentBeforeStart(st, v.proposal, v.nullifier)
    THEN "NullifierSpentBeforeStart"
    ELSE IF ~CheckUnbondedAmountCorrect(st, v.proposal, v.asset_id, v.amount, v.unbonded_amount)
    THEN "WrongUnbondedAmount"
    ELSE "Ok"

\* DelegatorVote::check_stateful: five checks in this order
DelegatorVoteCheckStateful(st, v) ==
    IF ~CheckProposalVotable(st, v.proposal) THEN "ProposalNotVotable"
    ELSE IF ~CheckProposalStartedAtPosition(st, v.proposal, v.start_position)
    THEN "WrongStartPosition"
    ELSE IF ~CheckNullifierUnspentBeforeStart(st, v.proposal, v.nullifier)
    THEN "NullifierSpentBeforeStart"
    ELSE IF ~CheckNullifierUnvoted(st, v.proposal, v.nullifier)
    THEN "NullifierAlreadyVoted"
    ELSE IF ~CheckUnbondedAmountCorrect(st, v.proposal, v.asset_id, v.amount, v.unbonded_amount)
    THEN "WrongUnbondedAmount"
    ELSE "Ok"

\* StateWriteExt::mark_nullifier_voted_on_proposal
MarkNullifierVoted(st, proposal, nullifier) ==
    [st EXCEPT !.voted = @ \cup {<<proposal, nullifier>>}]

\* StateWriteExt::cast_delegator_vote
CastDelegatorVote(st, proposal, identity_key, nullifier, unbonded_amount) ==
    [st EXCEPT !.tally = Append(@, <<proposal, identity_key, nullifier, unbonded_amount>>)]

\* DelegatorVote::execute that also spends the nullifier of the note
DelegatorVoteExecuteSpending(st, v) ==
    LET st1 == [MarkNullifierVoted(st, v.proposal, v.nullifier)
                    EXCEPT !.spent_at = MapPut(@, v.nullifier, st.height)]
        id  == ValidatorByDelegationAsset(st1, v.asset_id)
    IN  IF id = None
        THEN [result |-> "UnknownValidator", st |-> st1, steps |-> <<"write", "fallible">>]
        ELSE [result |-> "Ok",
              st |-> CastDelegatorVote(st1, v.proposal, id[1], v.nullifier, v.unbonded_amount),
              steps |-> <<"write", "fallible", "fallible", "write">>]

\* DelegatorVote::execute: mark the nullifier, look the validator up (an
\* error returns here, after the mark), cast the vote.  steps lists what
\* ran: a write to the state, or a call whose error execute returns.
DelegatorVoteExecute(st, v) ==
    LET st1 == MarkNullifierVoted(st, v.proposal, v.nullifier)
        id  == ValidatorByDelegationAsset(st1, v.asset_id)
    IN  IF id = None
        THEN [result |-> "UnknownValidator", st |-> st1, steps |-> <<"write", "fallible">>]
        ELSE [result |-> "Ok",
              st |-> CastDelegatorVote(st1, v.proposal, id[1], v.nullifier, v.unbonded_amount),
              steps |-> <<"write", "fallible", "fallible", "write">>]

NoVote ==
    [proposal |-> 0, nullifier |-> "none", start_position |-> [blk |-> 0, commitment |-> 0],
     note_position |-> [blk |-> 0, commitment |-> 0], asset_id |-> "none", amount |-> 0,
     unbonded_amount |-> 0, auth_sig_ok |-> FALSE]

NoVoteTx == [vote |-> NoVote, stateless |-> "none", stateful |-> "none",
             execute |-> "none", steps |-> <<>>]

GovInit ==
    /\ gov = GovGenesis
    /\ vote_tx = NoVoteTx
    /\ nvotes = 0

\* a transaction of one DelegatorVote: check_stateless, check_stateful and
\* execute, each run only when the one before it returned Ok; the writes of
\* an execute that fails are discarded with the transaction
DeliverVote ==
    /\ vote_tx = NoVoteTx
    /\ nvotes < MaxVotes
    /\ \E v \in DelegatorVotes :
          LET sl == DelegatorVoteCheckStateless(v)
              sf == IF sl = "Ok" THEN DelegatorVoteCheckStateful(gov, v) ELSE "none"
              ex == DelegatorVoteExecute(gov, v)
          IN  /\ vote_tx' = [vote |-> v, stateless |-> sl, stateful |-> sf,
                             execute |-> IF sf = "Ok" THEN ex.result ELSE "none",
                             steps |-> IF sf = "Ok" THEN ex.steps ELSE <<>>]
              /\ gov' = IF sf = "Ok" /\ ex.result = "Ok" THEN ex.st ELSE gov
    /\ nvotes' = nvotes + 1
    /\ UNCHANGED notGov

\* the transaction is over
VoteTxEnd ==
    /\ vote_tx # NoVoteTx
    /\ vote_tx' = NoVoteTx
    /\ UNCHANGED <<gov, nvotes>>
    /\ UNCHANGED notGov

\* a proposal is submitted: voting starts at the first position of the
\* block, with the validators' rates as they are
ProposalStart ==
    /\ vote_tx = NoVoteTx
    /\ \E p \in Proposals \ DOMAIN gov.proposals :
          gov' = [gov EXCEPT !.proposals = MapPut(@, p,
                     [state |-> "Voting",
                      start_position |-> [blk |-> gov.height, commitment |-> 0],
                      start_height |-> gov.height, rate |-> RateAtStart])]
    /\ UNCHANGED <<vote_tx, nvotes>>
    /\ UNCHANGED notGov

\* the voting period of a proposal ends
ProposalEnd ==
    /\ vote_tx = NoVoteTx
    /\ \E p \in DOMAIN gov.proposals :
          /\ gov.proposals[p].state = "Voting"
          /\ gov' = [gov EXCEPT !.proposals[p].state = "Finished"]
    /\ UNCHANGED <<vote_tx, nvotes>>
    /\ UNCHANGED notGov

\* a Spend of the note of a nullifier executes in the current block
GovSpend ==
    /\ vote_tx = NoVoteTx
    /\ \E n \in Nullifiers \ DOMAIN gov.spent_at :
          gov' = [gov EXCEPT !.spent_at = MapPut(@, n, gov.height)]
    /\ UNCHANGED <<vote_tx, nvotes>>
    /\ UNCHANGED notGov

\* the block ends
GovEndBlock ==
    /\ vote_tx = NoVoteTx
    /\ gov.height < MaxGovHeight
    /\ gov' = [gov EXCEPT !.height = @ + 1]
    /\ UNCHANGED <<vote_tx, nvotes>>
    /\ UNCHANGED notGov

GovNext ==
    \/ DeliverVote
    \/ VoteTxEnd
    \/ ProposalStart
    \/ ProposalEnd
    \/ GovSpend
    \/ GovEndBlock

(***************************************************************************)
(* The IBC message handlers MsgChannelOpenInit, MsgChannelOpenConfirm and  *)
(* MsgCreateClient.  A handler is given a state and returns a result and   *)
(* the state with the writes it made.                                      *)
(***************************************************************************)
\* messages delivered in one behaviour
MaxIbcMsgs == 2
\* channels opened by the counterparty's handshake in one behaviour
MaxTryChannels == 1

PortIdTransfer == "transfer"
Ports == {PortIdTransfer, "other"}
Orderings == {"Unordered", "Ordered"}
VersionIcs20 == "ics20-1"
Versions == {VersionIcs20, "ics20-2"}
ConnectionIds == {"connection-0"}
ChannelIds == 0..(MaxIbcMsgs + MaxTryChannels)
CounterpartyConnectionId == "connection-9"

IbcGenesis ==
    [channels |-> EmptyMap, send_seq |-> EmptyMap, recv_seq |-> EmptyMap,
     ack_seq |-> EmptyMap, channel_counter |-> 0, connections |-> EmptyMap,
     clients |-> EmptyMap, consensus |-> EmptyMap, client_counter |-> 0,
     events |-> <<>>]

\* StateReadExt::get_channel
GetChannel(st, channel_id, port_id) ==
    IF <<port_id, channel_id>> \in DOMAIN st.channels
    THEN Some(st.channels[<<port_id, channel_id>>]) ELSE None

\* StateWriteExt::put_channel
PutChannel(st, channel_id, port_id, channel) ==
    [st EXCEPT !.channels = MapPut(@, <<port_id, channel_id>>, channel)]

\* StateReadExt::get_connection
GetConnection(st, connection_id) ==
    IF connection_id \in DOMAIN st.connections
    THEN Some(st.connections[connection_id]) ELSE None

\* StateWriteExt::record
Record(st, event) == [st EXCEPT !.events = Append(@, event)]

\* the port check with every port let through
PortIsAny(port_id) == TRUE

\* port_id == PortId::transfer()
PortIsTransfer(port_id) == port_id = PortIdTransfer

\* the check of the channel's state with Open let through as well
ChannelNotInit(channel) == channel.state \in {"TryOpen", "Open"}

\* channel.state_matches(&ChannelState::TryOpen)
ChannelIsTryOpen(channel) == channel.state = "TryOpen"

\* ChannelProofVerifier::verify_channel_proof: the proof is of the channel
\* end the counterparty holds under (port_id, channel_id)
VerifyChannelProof(connection, proof, channel_id, port_id, expected_channel) ==
    proof = [port_id |-> port_id, channel_id |-> channel_id, channel |-> expected_channel]

\* Ics20Transfer::chan_open_confirm_check
ChanOpenConfirmCheck(st, msg) == TRUE

\* MsgChannelOpenConfirm::try_execute
ChannelOpenConfirmTryExecute(st, msg) ==
    LET got == GetChannel(st, msg.chan_id_on_b, msg.port_id_on_b)
        Err(e, s) == [result |-> e, st |-> s]
    IN  IF got = None THEN Err("ChannelNotFound", st)
        ELSE IF ~ChannelIsTryOpen(got[1]) THEN Err("ChannelNotInCorrectState", st)
        ELSE IF got[1].connection_hops = <<>> THEN Err("Panic", st)
        ELSE
        LET channel == got[1]
            conn == GetConnection(st, channel.connection_hops[1])
        IN  IF conn = None THEN Err("ConnectionNotFound", st)
            ELSE IF conn[1].state # "Open" THEN Err("ConnectionNotOpen", st)
            ELSE IF conn[1].counterparty_connection_id = None
            THEN Err("NoCounterpartyConnectionId", st)
            ELSE
            LET expected_channel ==
                    [state |-> "Open", ordering |-> channel.ordering,
                     remote |-> [port_id |-> msg.port_id_on_b,
                                 channel_id |-> Some(msg.chan_id_on_b)],
                     connection_hops |-> <<conn[1].counterparty_connection_id[1]>>,
                     version |-> channel.version]
            IN  IF channel.remote.channel_id = None THEN Err("NoChannelId", st)
                ELSE IF ~VerifyChannelProof(conn[1], msg.proof_chan_end_on_a,
                                            channel.remote.channel_id[1],
                                            channel.remote.port_id, expected_channel)
                THEN Err("ProofVerificationFailed", st)
                ELSE IF ~PortIsTransfer(msg.port_id_on_b) THEN Err("InvalidPortId", st)
                ELSE IF ~ChanOpenConfirmCheck(st, msg) THEN Err("AppCheckFailed", st)
                ELSE
                LET opened == [channel EXCEPT !.state = "Open"]
                    st1 == PutChannel(st, msg.chan_id_on_b, msg.port_id_on_b, opened)
                    st2 == Record(st1, <<"OpenConfirm", msg.port_id_on_b, msg.chan_id_on_b,
                                         opened.connection_hops[1]>>)
                IN  IF msg.port_id_on_b = PortIdTransfer
                    THEN [result |-> "Ok", st |-> st2]
                    ELSE Err("InvalidPortId", st2)

\* MsgChannelOpenInit::check_stateless without connection_hops_eq_1
ChannelOpenInitCheckStatelessAny(msg) == "Ok"

\* MsgChannelOpenInit::check_stateless: connection_hops_eq_1
ChannelOpenInitCheckStateless(msg) ==
    IF Len(msg.connection_hops_on_a) # 1 THEN "ConnectionHopsNotOne" ELSE "Ok"

\* Ics20Transfer::chan_open_init_check: an unordered channel of version ics20-1
ChanOpenInitCheck(st, msg) ==
    msg.ordering = "Unordered" /\ msg.version_proposal = VersionIcs20

\* next_channel_id giving the id of the incremented counter
NextChannelIdAfter(st) ==
    [id |-> st.channel_counter + 1, st |-> [st EXCEPT !.channel_counter = @ + 1]]

\* StateWriteExt::next_channel_id: the id of the counter, and the counter
\* incremented
NextChannelId(st) ==
    [id |-> st.channel_counter, st |-> [st EXCEPT !.channel_counter = @ + 1]]

\* put_send_sequence, put_recv_sequence, put_ack_sequence
PutSequences(st, channel_id, port_id, n) ==
    [st EXCEPT !.send_seq = MapPut(@, <<port_id, channel_id>>, n),
               !.recv_seq = MapPut(@, <<port_id, channel_id>>, n),
               !.ack_seq = MapPut(@, <<port_id, channel_id>>, n)]

\* MsgChannelOpenInit::try_execute
ChannelOpenInitTryExecute(st, msg) ==
    LET checked_id == st.channel_counter
        Err(e, s) == [result |-> e, st |-> s]
    IN  IF GetChannel(st, checked_id, msg.port_id_on_a) # None
        THEN Err("ChannelAlreadyExists", st)
        ELSE IF msg.connection_hops_on_a = <<>> THEN Err("Panic", st)
        ELSE IF GetConnection(st, msg.connection_hops_on_a[1]) = None
        THEN Err("ConnectionNotFound", st)
        ELSE IF ~PortIsTransfer(msg.port_id_on_a) THEN Err("InvalidPortId", st)
        ELSE IF ~ChanOpenInitCheck(st, msg) THEN Err("AppCheckFailed", st)
        ELSE
        LET next == NextChannelId(st)
            new_channel ==
                [state |-> "Init", ordering |-> msg.ordering,
                 remote |-> [port_id |-> msg.port_id_on_b, channel_id |-> None],
                 connection_hops |-> msg.connection_hops_on_a,
                 version |-> msg.version_proposal]
            st1 == PutChannel(next.st, next.id, msg.port_id_on_a, new_channel)
            st2 == PutSequences(st1, next.id, msg.port_id_on_a, 1)
            st3 == Record(st2, <<"OpenInit", msg.port_id_on_a, next.id,
                                 new_channel.connection_hops[1]>>)
        IN  IF msg.port_id_on_a = PortIdTransfer
            THEN [result |-> "Ok", st |-> st3]
            ELSE Err("InvalidPortId", st3)

ClientStateKinds == {"tendermint", "tendermint_malformed", "solomachine"}

\* ics02_validation::is_tendermint_client_state, is_tendermint_consensus_state:
\* the type URL is the tendermint one
IsTendermint(any) == any.kind \in {"tendermint", "tendermint_malformed"}

\* ics02_validation::get_tendermint_client_state, get_tendermint_consensus_state:
\* the decoded state, or an error
GetTendermint(any) == IF any.kind = "tendermint" THEN Some(any) ELSE None

\* MsgCreateClient::check_stateless
CreateClientCheckStateless(msg) ==
    IF ~IsTendermint(msg.client_state) THEN "NotTendermintClientState"
    ELSE IF ~IsTendermint(msg.consensus_state) THEN "NotTendermintConsensusState"
    ELSE "Ok"

\* ClientId::new(client_type(), counter)
ClientIdNew(counter) == <<"07-tendermint", counter>>

\* MsgCreateClient::try_execute without the increment of the client counter
CreateClientNoIncrement(st, msg) ==
    LET client_state == GetTendermint(msg.client_state)
        client_id == ClientIdNew(st.client_counter)
        consensus_state == GetTendermint(msg.consensus_state)
    IN  IF client_state = None THEN [result |-> "BadClientState", st |-> st]
        ELSE IF consensus_state = None THEN [result |-> "BadConsensusState", st |-> st]
        ELSE
        LET st1 == [st EXCEPT !.clients = MapPut(@, client_id, client_state[1])]
            st2 == [st1 EXCEPT !.consensus =
                        MapPut(@, <<client_id, client_state[1].latest_height>>,
                               consensus_state[1])]
        IN  [result |-> "Ok",
             st |-> Record(st2, <<"CreateClient", client_id,
                                  client_state[1].latest_height>>)]

\* MsgCreateClient::try_execute
CreateClientTryExecute(st, msg) ==
    LET client_state == GetTendermint(msg.client_state)
        client_id == ClientIdNew(st.client_counter)
        consensus_state == GetTendermint(msg.consensus_state)
    IN  IF client_state = None THEN [result |-> "BadClientState", st |-> st]
        ELSE IF consensus_state = None THEN [result |-> "BadConsensusState", st |-> st]
        ELSE
        LET st1 == [st EXCEPT !.clients = MapPut(@, client_id, client_state[1])]
            st2 == [st1 EXCEPT !.consensus =
                        MapPut(@, <<client_id, client_state[1].latest_height>>,
                               consensus_state[1])]
            st3 == [st2 EXCEPT !.client_counter = st2.client_counter + 1]
        IN  [result |-> "Ok",
             st |-> Record(st3, <<"CreateClient", client_id,
                                  client_state[1].latest_height>>)]

\* the channel ends a counterparty may hold and prove
ProvenChannels ==
    [state : {"Open", "TryOpen"}, ordering : Orderings,
     remote : [port_id : Ports, channel_id : {Some(0), Some(1)}],
     connection_hops : {<<CounterpartyConnectionId>>}, version : {VersionIcs20}]

IbcMsgs ==
    [type : {"ChannelOpenConfirm"}, port_id_on_b : Ports, chan_id_on_b : ChannelIds,
     proof_chan_end_on_a : [port_id : {PortIdTransfer}, channel_id : {5},
                            channel : ProvenChannels]]
    \cup
    [type : {"ChannelOpenInit"}, port_id_on_a : Ports, port_id_on_b : {PortIdTransfer},
     connection_hops_on_a : {<<>>, <<"connection-0">>, <<"connection-1">>,
                             <<"connection-0", "connection-0">>},
     ordering : Orderings, version_proposal : Versions]
    \cup
    [type : {"CreateClient"},
     client_state : [kind : ClientStateKinds, latest_height : {1}],
     consensus_state : [kind : ClientStateKinds]]

\* MsgHandler::check_stateless of each message
IbcCheckStateless(msg) ==
    IF msg.type = "ChannelOpenInit" THEN ChannelOpenInitCheckStateless(msg)
    ELSE IF msg.type = "CreateClient" THEN CreateClientCheckStateless(msg)
    ELSE "Ok"

\* MsgHandler::try_execute of each message
IbcTryExecute(st, msg) ==
    IF msg.type = "ChannelOpenInit" THEN ChannelOpenInitTryExecute(st, msg)
    ELSE IF msg.type = "CreateClient" THEN CreateClientTryExecute(st, msg)
    ELSE ChannelOpenConfirmTryExecute(st, msg)

NoIbcTx == [msg |-> [type |-> "none"], stateless |-> "none", result |-> "none",
            st |-> IbcGenesis]

IbcInit ==
    /\ ibc = IbcGenesis
    /\ ibc_tx = NoIbcTx
    /\ nmsgs = 0

\* a transaction of one IBC message: check_stateless, then try_execute on the
\* transaction's state; the writes of a try_execute that fails are discarded
\* with the transaction
DeliverIbcMsg ==
    /\ ibc_tx = NoIbcTx
    /\ nmsgs < MaxIbcMsgs
    /\ \E msg \in IbcMsgs :
          LET sl == IbcCheckStateless(msg)
              r  == IF sl = "Ok" THEN IbcTryExecute(ibc, msg)
                    ELSE [result |-> "none", st |-> ibc]
          IN  /\ ibc_tx' = [msg |-> msg, stateless |-> sl, result |-> r.result, st |-> r.st]
              /\ ibc' = IF r.result = "Ok" THEN r.st ELSE ibc
    /\ nmsgs' = nmsgs + 1
    /\ UNCHANGED notIbc

\* the transaction is over
IbcTxEnd ==
    /\ ibc_tx # NoIbcTx
    /\ ibc_tx' = NoIbcTx
    /\ UNCHANGED <<ibc, nmsgs>>
    /\ UNCHANGED notIbc

\* a step of the connection handshake: a connection is created in state Init
\* (its counterparty's id not known yet) or TryOpen, or is opened
ConnectionHandshake ==
    /\ ibc_tx = NoIbcTx
    /\ \E c \in ConnectionIds :
          IF c \notin DOMAIN ibc.connections
          THEN \E init \in BOOLEAN :
                  ibc' = [ibc EXCEPT !.connections = MapPut(@, c,
                             IF init
                             THEN [state |-> "Init", counterparty_connection_id |-> None]
                             ELSE [state |-> "TryOpen",
                                   counterparty_connection_id |->
                                       Some(CounterpartyConnectionId)])]
          ELSE /\ ibc.connections[c].state # "Open"
               /\ ibc' = [ibc EXCEPT !.connections[c] =
                             [state |-> "Open",
                              counterparty_connection_id |-> Some(CounterpartyConnectionId)]]
    /\ UNCHANGED <<ibc_tx, nmsgs>>
    /\ UNCHANGED notIbc

\* MsgChannelOpenTry of the counterparty's handshake: a channel in state
\* TryOpen under the next channel id
ChannelOpenTry ==
    /\ ibc_tx = NoIbcTx
    /\ Cardinality({k \in DOMAIN ibc.channels : ibc.channels[k].remote.channel_id # None})
          < MaxTryChannels
    /\ \E c \in DOMAIN ibc.connections, o \in Orderings :
          LET next == NextChannelId(ibc)
          IN  ibc' = PutSequences(
                        PutChannel(next.st, next.id, PortIdTransfer,
                                   [state |-> "TryOpen", ordering |-> o,
                                    remote |-> [port_id |-> PortIdTransfer,
                                                channel_id |-> Some(5)],
                                    connection_hops |-> <<c>>, version |-> VersionIcs20]),
                        next.id, PortIdTransfer, 1)
    /\ UNCHANGED <<ibc_tx, nmsgs>>
    /\ UNCHANGED notIbc

IbcNext ==
    \/ DeliverIbcMsg
    \/ IbcTxEnd
    \/ ConnectionHandshake
    \/ ChannelOpenTry

NoRead == [version |-> U64Max, key |-> "", value |-> None, proofs |-> <<>>]

ReadInit == proof_read = NoRead

\* a client takes a cached snapshot and calls get_with_proof_to_apphash
ReadWithProof ==
    /\ proof_read = NoRead
    /\ \E version \in CachedVersions, key \in Keys :
          LET r == GetWithProofToApphash(db, version, key)
          IN  proof_read' = [version |-> version, key |-> key, value |-> r.value,
                             proofs |-> r.proofs]
    /\ UNCHANGED notRead

\* the client is done with the result
ReadEnd ==
    /\ proof_read # NoRead
    /\ proof_read' = NoRead
    /\ UNCHANGED notRead

MaxTimeout == 2

\* source ports: 'transfer' and strings that are not 'transfer'
WithdrawalPorts == {PortIdTransfer, "Transfer", "transfer/", "", "icahost"}

Ics20Withdrawals ==
    [amount : Amounts, timeout_height : 0..MaxTimeout, timeout_time : 0..MaxTimeout,
     source_port : WithdrawalPorts, source_channel : {0, 1}]

\* Ics20Withdrawal::validate without the check of timeout_time
ValidateNoTimeoutTime(w) ==
    IF w.timeout_height = 0 THEN "timeout height must be non-zero"
    ELSE IF w.source_port # "transfer"
    THEN "source port for a withdrawal must be 'transfer'"
    ELSE "Ok"

\* Ics20Withdrawal::validate
Ics20WithdrawalValidate(w) ==
    IF w.timeout_height = 0 THEN "timeout height must be non-zero"
    ELSE IF w.timeout_time = 0 THEN "timeout time must be non-zero"
    ELSE IF w.source_port # "transfer"
    THEN "source port for a withdrawal must be 'transfer'"
    ELSE "Ok"

\* no withdrawal is being validated
WithdrawalIdle ==
    /\ withdrawal = [amount |-> 0, timeout_height |-> 0, timeout_time |-> 0,
                     source_port |-> "", source_channel |-> 0]
    /\ withdrawal_result = "none"

\* a withdrawal of Ics20Withdrawals, not validated yet
WithdrawalInit ==
    /\ StorageInit /\ DexInit /\ GovInit /\ IbcInit /\ ReadInit /\ ApiInit
    /\ CodecIdle /\ NftIdle /\ PlannerInit /\ CallsIdle
    /\ withdrawal \in Ics20Withdrawals
    /\ withdrawal_result = "none"

\* check_stateless of the action: validate
ValidateWithdrawal ==
    /\ withdrawal_result = "none"
    /\ withdrawal_result' = Ics20WithdrawalValidate(withdrawal)
    /\ UNCHANGED withdrawal
    /\ UNCHANGED notWithdrawal

WithdrawalNext == ValidateWithdrawal

\* one step of committer p
(***************************************************************************)
(* A client of the Storage handle: the calls that read it, subscribe, and  *)
(* a StateDelta built on the latest snapshot and dropped.                  *)
(***************************************************************************)
MaxReceivers == 1
MaxDeltaWrites == 1

storageFrame == <<db, snapshots, state_tx, task, ncommits, nfaults, published,
                  committed_db, content, written_at>>

\* Storage::latest_version
LatestVersionCall ==
    /\ api = NoCall
    /\ api' = [call |-> "latest_version", arg |-> None, result |-> LatestVersion]
    /\ UNCHANGED <<svars, delta>>
    /\ UNCHANGED notApi

\* Storage::latest_snapshot
LatestSnapshotCall ==
    /\ api = NoCall
    /\ api' = [call |-> "latest_snapshot", arg |-> None, result |-> Latest(snapshots)]
    /\ UNCHANGED <<svars, delta>>
    /\ UNCHANGED notApi

\* Storage::snapshot(version)
SnapshotCall(version) ==
    /\ api = NoCall
    /\ api' = [call |-> "snapshot", arg |-> version, result |-> StorageSnapshot(version)]
    /\ UNCHANGED <<svars, delta>>
    /\ UNCHANGED notApi

\* the client is done with the result
ApiEnd ==
    /\ api # NoCall
    /\ api' = NoCall
    /\ UNCHANGED <<svars, delta>>
    /\ UNCHANGED notApi

\* Storage::subscribe
Subscribe ==
    /\ api = NoCall
    /\ Len(receivers) < MaxReceivers
    /\ receivers' = WatchSubscribe(state_tx, receivers)
    /\ UNCHANGED storageFrame
    /\ UNCHANGED avars
    /\ UNCHANGED notApi

\* the receiver handed out last is dropped
DropReceiver ==
    /\ receivers # <<>>
    /\ receivers' = SubSeq(receivers, 1, Len(receivers) - 1)
    /\ UNCHANGED storageFrame
    /\ UNCHANGED avars
    /\ UNCHANGED notApi

\* StateDelta::put and StateDelta::delete through to the column family of
\* values
StateDeltaWriteThrough(d, dl, key, value) ==
    [db |-> ApplyOp(d, PutOp("jmt_values", VersionedKeyHashEncode(U64Zero, KeyHash(key)),
                             BorshOption(value))),
     delta |-> [dl EXCEPT !.changes = MapPut(@, key, value)]]

\* StateDelta::put and StateDelta::delete: the change is kept in the delta,
\* in memory, and the database of its snapshot is left alone
StateDeltaWrite(d, dl, key, value) ==
    [db |-> d, delta |-> [dl EXCEPT !.changes = MapPut(@, key, value)]]

\* StateDelta::new(storage.latest_snapshot())
DeltaNew ==
    /\ api = NoCall
    /\ delta = NoDelta
    /\ delta' = [base |-> Some(Latest(snapshots)), changes |-> EmptyMap]
    /\ UNCHANGED <<svars, api>>
    /\ UNCHANGED notApi

\* a put or a delete on the delta
DeltaWrite ==
    /\ api = NoCall
    /\ delta # NoDelta
    /\ Cardinality(DOMAIN delta.changes) < MaxDeltaWrites
    /\ \E key \in Keys \ DOMAIN delta.changes, value \in OptionOf({1}) :
          LET r == StateDeltaWrite(db, delta, key, value)
          IN  db' = r.db /\ delta' = r.delta
    /\ UNCHANGED <<snapshots, state_tx, task, ncommits, nfaults, published,
                   committed_db, content, written_at, receivers, api>>
    /\ UNCHANGED notApi

\* the delta is dropped without being committed
DeltaDrop ==
    /\ delta # NoDelta
    /\ delta' = NoDelta
    /\ UNCHANGED <<svars, api>>
    /\ UNCHANGED notApi

ClientQuiet == api = NoCall /\ delta = NoDelta /\ receivers = <<>>

(***************************************************************************)
(* Commits that run to their end with no error, one after the other, more  *)
(* of them than the snapshot cache holds.                                  *)
(***************************************************************************)
MaxCacheCommits == 11

\* the deltas committed: a put and a delete of "a"
CacheDeltas == {MapPut(EmptyMap, "a", Some(1)), MapPut(EmptyMap, "a", None)}

\* the versions asked for: every version committed, the pre-genesis version
\* and versions never committed
ProbeVersions == {AddN(U64Max, j) : j \in 0..(MaxCacheCommits + 2)}

\* Storage::commit and commit_inner from the call to Ok(root_hash)
CommitOk ==
    /\ api = NoCall
    /\ \A p \in Procs : task[p].pc = "idle"
    /\ ncommits < MaxCacheCommits
    /\ \E changes \in CacheDeltas :
          LET old_version == LatestVersion
              new_version == WrappingAdd1(old_version)
              uc == UnwrittenChanges(changes)
              keys == KeyIndexOps(changes)
              d1 == ApplyOps(db, keys, Len(keys))
              r == PutValueSet(d1, [i \in 1..Len(uc) |-> <<uc[i][1], uc[i][3]>>], new_version)
              batch == NodeBatchOps(r)
              d2 == ApplyOps(d1, batch, Len(batch))
              pushed == TryPush(snapshots, new_version)
          IN  /\ r.ok
              /\ pushed.ok
              /\ db' = d2
              /\ snapshots' = pushed.cache
              /\ state_tx' = [value |-> new_version, sends |-> state_tx.sends + 1]
              /\ receivers' = WatchSend(receivers, new_version)
              /\ published' = [v \in DOMAIN published \cup {new_version} |->
                                  IF v = new_version THEN ReadAll(d2, v) ELSE published[v]]
              /\ committed_db' = d2
              /\ content' = [v \in DOMAIN content \cup {new_version} |->
                                IF v = new_version
                                THEN ApplyWrites(content[old_version], changes)
                                ELSE content[v]]
              /\ written_at' = [v \in DOMAIN written_at \cup {new_version} |->
                                   IF v = new_version THEN changes ELSE written_at[v]]
    /\ ncommits' = ncommits + 1
    /\ UNCHANGED <<task, nfaults>>
    /\ UNCHANGED notStorage

TaskStep(p) ==
    \/ Commit(p)
    \/ CommitInnerKeys(p)
    \/ CommitInnerPutValueSet(p)
    \/ WriteNodeBatch(p)
    \/ CommitInnerNonverifiable(p)
    \/ CommitInnerPush(p)
    \/ CommitInnerSend(p)

\* the store as its owner drives it: one commit at a time
StorageNext == TaskStep(1)

\* a step of the store between two calls of a client
StoreStep == proof_read = NoRead /\ StorageNext

\* the store and a client reading with proofs
ProofNext ==
    \/ StoreStep
    \/ ReadWithProof
    \/ ReadEnd

\* a step of the store while the client holds nothing
ApiStoreStep == ClientQuiet /\ StorageNext

\* the store and a client of the handle that does one thing at a time
ApiNext ==
    \/ ApiStoreStep
    \/ ClientQuiet /\ LatestVersionCall
    \/ ClientQuiet /\ LatestSnapshotCall
    \/ ClientQuiet /\ \E version \in CachedVersions \cup {WrappingAdd1(LatestVersion)} :
                          SnapshotCall(version)
    \/ ApiEnd
    \/ ClientQuiet /\ Subscribe
    \/ DropReceiver
    \/ ClientQuiet /\ DeltaNew
    \/ DeltaWrite
    \/ DeltaDrop

\* the store and subscribers
SubscribeNext ==
    \/ StorageNext
    \/ Subscribe
    \/ DropReceiver

\* the store, reopened between commits
LoadNext ==
    \/ StorageNext
    \/ StorageLoad

\* commits without error and a client asking for snapshots
CacheNext ==
    \/ CommitOk
    \/ api = NoCall /\ LatestSnapshotCall
    \/ api = NoCall /\ \E version \in ProbeVersions : SnapshotCall(version)
    \/ ApiEnd

\* two tasks calling Storage::commit on clones of the handle
RaceNext ==
    \E p \in Procs :
        \/ ncommits < MaxRaceCommits /\ Commit(p)
        \/ CommitInnerKeys(p)
        \/ CommitInnerPutValueSet(p)
        \/ WriteNodeBatch(p)
        \/ CommitInnerNonverifiable(p)
        \/ CommitInnerPush(p)
        \/ CommitInnerSend(p)

vars == <<svars, dvars, gvars, ivars, wvars, rvars, avars, pvars, qvars>>

\* everything but the values being converted
RestInit ==
    StorageInit /\ DexInit /\ GovInit /\ IbcInit /\ WithdrawalIdle /\ ReadInit /\ ApiInit

Init == RestInit /\ CodecIdle /\ NftIdle /\ PlannerInit /\ CallsIdle

Spec == Init /\ [][StorageNext]_vars

RaceSpec == Init /\ [][RaceNext]_vars

DexSpec == Init /\ [][DexNext]_vars

GovSpec == Init /\ [][GovNext]_vars

IbcSpec == Init /\ [][IbcNext]_vars

\* the storage engine with a client reading with proofs
ProofSpec == Init /\ [][ProofNext]_vars

\* the storage engine with a client of the handle
ApiSpec == Init /\ [][ApiNext]_vars

\* the storage engine with subscribers
SubscribeSpec == Init /\ [][SubscribeNext]_vars

\* the storage engine, reopened between commits
LoadSpec == Init /\ [][LoadNext]_vars

\* the snapshot cache over more commits than it holds
CacheSpec == Init /\ [][CacheNext]_vars

NftInit == RestInit /\ CodecIdle /\ PlannerInit /\ CallsIdle /\ nft \in NftInputs

NftSpec == NftInit /\ [][NftNext]_vars

CodecInit == RestInit /\ NftIdle /\ PlannerInit /\ CallsIdle /\ codec \in CodecInputs

CodecSpec == CodecInit /\ [][CodecNext]_vars

PlannerSpec == Init /\ [][PlannerNext]_vars

\* validate on every Ics20Withdrawal of Ics20Withdrawals
WithdrawalSpec == WithdrawalInit /\ [][WithdrawalNext]_vars

(***************************************************************************)
(* Properties of the storage engine.                                       *)
(***************************************************************************)
\* w is v + 1 modulo 2^64, stated on the limbs
IsSucc64(v, w) ==
    IF v = U64Max THEN w = U64Zero
    ELSE \E i \in 1..NumLimbs :
            /\ v[i] < LimbBase - 1
            /\ w[i] = v[i] + 1
            /\ \A j \in 1..NumLimbs : (j < i => w[j] = v[j])
                                   /\ (j > i => v[j] = LimbBase - 1 /\ w[j] = 0)

\* C1: a commit gets past its version check only when the delta's base
\* version is the latest version at the call; when it returns Ok the version
\* it published is the old one plus 1 modulo 2^64; and the latest version
\* changes only in the push of such a commit, by exactly that step.
C1_CommitVersionMonotonic ==
    [][/\ \A p \in Procs :
            /\ (~InFlight(p) /\ InFlight(p)') =>
                   (task'[p].base = LatestVersion /\ task'[p].old_version = LatestVersion)
            /\ (task[p].pc = "send" /\ task'[p].result = "Ok") =>
                   /\ task[p].base = task[p].old_version
                   /\ task[p].new_version \in CachedVersions'
                   /\ IsSucc64(task[p].old_version, task[p].new_version)
            /\ (task'[p].result = "Ok" /\ task[p] # task'[p]) => task[p].pc = "send"
       /\ LatestVersion' # LatestVersion =>
            \E p \in Procs : /\ task[p].pc = "push" /\ task'[p].pc = "send"
                             /\ task[p].base = LatestVersion
                             /\ IsSucc64(LatestVersion, LatestVersion')
      ]_vars

\* the first commit of a fresh store has returned Ok: the version wrapped
\* from u64::MAX to 0
C1_Witness ==
    /\ LatestVersion = U64Zero
    /\ task[1].result = "Ok"
    /\ snapshots = <<U64Zero, U64Max>>

\* C2: a commit of a delta whose base version is not the latest version
\* returns the version-mismatch error, and that call changes neither the
\* column families, nor the snapshot cache (so nor the latest version), nor
\* the watch channel.
C2_MismatchLeavesStoreUnchanged ==
    [][\A p \in Procs :
          (task[p].pc = "idle" /\ task'[p] # task[p] /\ task'[p].base # LatestVersion) =>
              /\ task'[p].pc = "idle"
              /\ task'[p].result = "VersionMismatch"
              /\ UNCHANGED <<db, snapshots, state_tx>>
      ]_vars

\* a delta forked before a commit was refused after it
C2_Witness ==
    /\ task[1].result = "VersionMismatch"
    /\ task[1].base = U64Max
    /\ LatestVersion = U64Zero
    /\ db # EmptyDb

\* C3: of two commits of deltas forked from the same version, only one gets
\* past the version check while the other is in flight, and none panics.
C3_CommitsSerialized ==
    /\ \A p, q \in Procs :
          (p # q /\ InFlight(p) /\ InFlight(q)) => task[p].old_version # task[q].old_version
    /\ \A p \in Procs : task[p].result # "Panic"

\* C4: a commit that returns an error leaves the column families as the last
\* successful commit left them and the version where it was; a commit that
\* returns Ok has made every write of its delta visible at the new version.
C4_CommitAtomic ==
    [][\A p \in Procs :
          /\ (InFlight(p) /\ task'[p].pc = "idle" /\ task'[p].result # "Ok") =>
                 (db' = committed_db' /\ LatestVersion' = LatestVersion)
          /\ (task[p].pc = "send" /\ task'[p].result = "Ok") =>
                 /\ \A k \in DOMAIN task[p].changes :
                       SnapshotGet(db', task[p].new_version, k) = task[p].changes[k]
                 /\ \A k \in DOMAIN task[p].nv :
                       IF task[p].nv[k] = None
                       THEN k \notin DOMAIN db'.nonverifiable
                       ELSE k \in DOMAIN db'.nonverifiable
                            /\ db'.nonverifiable[k] = task[p].nv[k][1]
      ]_vars

\* C5: when a commit returns Ok, a read of each key of its delta from the new
\* latest snapshot returns the value the delta put, and None for a key the
\* delta deleted.
C5_ReadYourCommit ==
    [][\A p \in Procs :
          (task[p].pc = "send" /\ task'[p].result = "Ok") =>
              \A k \in DOMAIN task[p].changes :
                  SnapshotGet(db', LatestVersion', k) = task[p].changes[k]
      ]_vars

CheckStatefulStep == tx.pc \in {"none", "next"} /\ tx'.result # "none"

\* the nullifiers of the SwapClaims executed in st: execute has added the
\* claim's output payloads
Executed(st) == {n \in Nullifiers : \E h \in Heights : <<n, h, 1>> \in st.payloads}

\* the record on chain under the key of the claim's output data
RecordedFor(st, claim) ==
    OutputData(st, claim.output_data.height, claim.output_data.trading_pair)

\* C8 as stated: once a SwapClaim with nullifier N has executed, check_stateful
\* of every later action with nullifier N fails with the spent-nullifier
\* error.
C8_SpentNullifierError ==
    [][CheckStatefulStep /\ tx'.cur.nullifier \in Executed(View)
          => tx'.result = "NullifierSpent"]_vars

\* C8: once a SwapClaim with nullifier N has executed, in this transaction,
\* this block or an earlier block, check_stateful of every later action with
\* nullifier N fails and its execute does not run; the error is the
\* spent-nullifier error when the epoch duration and the output data of the
\* action pass their checks, and the error of the first of these two checks
\* that fails otherwise.
C8_SpentNullifierRejected ==
    [][CheckStatefulStep /\ tx'.cur.nullifier \in Executed(View)
          => /\ tx'.result # "Ok"
             /\ tx'.pc # "checked"
             /\ tx'.st = GenesisState
             /\ IF tx'.cur.epoch_duration # GetEpochDuration(View)
                THEN tx'.result = "EpochDurationMismatch"
                ELSE IF RecordedFor(View, tx'.cur) = None
                THEN tx'.result = "OutputDataNotFound"
                ELSE IF RecordedFor(View, tx'.cur) # Some(tx'.cur.output_data)
                THEN tx'.result = "OutputDataMismatch"
                ELSE tx'.result = "NullifierSpent"]_vars

\* a claim of a nullifier spent in an earlier, committed block was refused
\* with the spent-nullifier error
C8_Witness ==
    /\ tx.result = "NullifierSpent"
    /\ tx.cur.nullifier \in Executed(chain)
    /\ tx.cur.nullifier \in DOMAIN chain.spent

\* C9: in every committed state, and in the state of the block being
\* executed, every nullifier has been marked spent by at most one executed
\* action, a transaction with two actions of one nullifier included.
C9_NullifierSpentOnce ==
    \A n \in Nullifiers :
        /\ chain.marks[n] <= 1
        /\ block.marks[n] <= 1
        /\ tx.st.marks[n] <= 1
        /\ (n \in DOMAIN chain.spent <=> chain.marks[n] = 1)

\* a nullifier is committed as spent, and a second action with it was
\* refused
C9_Witness ==
    \E n \in Nullifiers :
        /\ chain.marks[n] = 1
        /\ tx.cur.nullifier = n
        /\ tx.result = "NullifierSpent"

\* C10: check_stateful of a SwapClaim fails when the chain has a record under
\* the claim's (height, trading pair) and the claim's output data differs
\* from it in some field; when it passes, the record is there and equals the
\* claim's output data in every field.
C10_OutputDataMustMatch ==
    [][CheckStatefulStep
          => LET recorded == RecordedFor(View, tx'.cur)
             IN  /\ (recorded # None /\ \E f \in OutputDataFields :
                                           recorded[1][f] # tx'.cur.output_data[f])
                       => tx'.result \notin {"Ok", "NullifierSpent"}
                 /\ tx'.result = "Ok"
                       => recorded # None /\ \A f \in OutputDataFields :
                                                recorded[1][f] = tx'.cur.output_data[f]]_vars

\* a claim whose output data has the key of a record on chain and another
\* amount was refused
C10_Witness ==
    /\ tx.result = "OutputDataMismatch"
    /\ RecordedFor(block, tx.cur) # None
    /\ RecordedFor(block, tx.cur)[1].delta_1 # tx.cur.output_data.delta_1

\* C11 as stated: check_stateful of a SwapClaim fails with 'output data not
\* found' whenever no record is on chain under the claim's (height, trading
\* pair).
C11_NotFoundError ==
    [][CheckStatefulStep /\ RecordedFor(View, tx'.cur) = None
          => tx'.result = "OutputDataNotFound"]_vars

\* C11: when no record is on chain under the claim's (height, trading pair),
\* check_stateful of a SwapClaim fails: with 'output data not found' when the
\* claim's epoch duration is the chain's, with the epoch duration error
\* otherwise.  So no claim is executed whose output data has no record, and
\* every executed claim is of a height whose block has ended.
C11_NoClaimBeforeOutputData ==
    [][/\ CheckStatefulStep /\ RecordedFor(View, tx'.cur) = None
             => /\ tx'.pc # "checked"
                /\ tx'.result = IF tx'.cur.epoch_duration = GetEpochDuration(View)
                                THEN "OutputDataNotFound"
                                ELSE "EpochDurationMismatch"
       /\ tx.pc = "checked"
             => /\ RecordedFor(tx.st, tx.cur) # None
                /\ tx.cur.output_data.height < block_height
                /\ \A c \in tx'.st.payloads : c[2] < block_height]_vars

\* a claim of the height of the block being executed, whose batch execution
\* has not run, was refused with 'output data not found'
C11_Witness ==
    /\ tx.result = "OutputDataNotFound"
    /\ tx.cur.output_data.height = block_height
    /\ tx.cur.output_data.trading_pair = "XY"
    /\ block_height > 1

(***************************************************************************)
(* DelegatorVote                                                           *)
(***************************************************************************)
\* the vote delivered last passed check_stateless and check_stateful
VoteAccepted == vote_tx.stateless = "Ok" /\ vote_tx.stateful = "Ok"

\* the step delivers a DelegatorVote
DeliverVoteStep == vote_tx = NoVoteTx /\ vote_tx' # NoVoteTx

\* C12: a DelegatorVote on a recorded proposal whose note position equals or
\* exceeds the proposal's recorded start position is rejected (by the proof
\* or by the check of the start position); an accepted vote has a note
\* position strictly below the recorded start position and claims exactly
\* the recorded start position.
C12_VoteBeforeStartPosition ==
    vote_tx # NoVoteTx =>
        LET v == vote_tx.vote
        IN  /\ (/\ v.proposal \in DOMAIN gov.proposals
                /\ PositionValue(v.note_position)
                      >= PositionValue(gov.proposals[v.proposal].start_position))
                  => /\ ~VoteAccepted
                     /\ vote_tx.execute = "none"
            /\ VoteAccepted
                  => /\ v.proposal \in DOMAIN gov.proposals
                     /\ v.start_position = gov.proposals[v.proposal].start_position
                     /\ PositionValue(v.note_position)
                           < PositionValue(gov.proposals[v.proposal].start_position)

\* a signed vote on an open proposal, claiming its recorded start position,
\* with a note at exactly that position, was rejected
C12_Witness ==
    /\ vote_tx # NoVoteTx
    /\ vote_tx.vote.auth_sig_ok
    /\ CheckProposalVotable(gov, vote_tx.vote.proposal)
    /\ vote_tx.vote.start_position = gov.proposals[vote_tx.vote.proposal].start_position
    /\ vote_tx.vote.note_position = vote_tx.vote.start_position
    /\ vote_tx.vote.start_position.blk > 0
    /\ ~VoteAccepted

\* the votes cast with nullifier n on proposal p
VotesCast(st, p, n) == {i \in DOMAIN st.tally : st.tally[i][1] = p /\ st.tally[i][3] = n}

\* C13: once a DelegatorVote with nullifier N on proposal P has executed,
\* a later DelegatorVote with the same N and P does not pass check_stateful,
\* is not executed and changes nothing; so a nullifier has at most one vote
\* cast on a proposal.
C13_OneVotePerNullifier ==
    [][/\ (DeliverVoteStep /\ <<vote_tx'.vote.proposal, vote_tx'.vote.nullifier>> \in gov.voted)
             => /\ vote_tx'.stateful # "Ok"
                /\ vote_tx'.stateless = "Ok" => vote_tx'.stateful = "NullifierAlreadyVoted"
                                                \/ vote_tx'.stateful \in
                                                     {"ProposalNotVotable", "WrongStartPosition",
                                                      "NullifierSpentBeforeStart"}
                /\ vote_tx'.execute = "none"
                /\ gov' = gov
       /\ \A p \in Proposals, n \in Nullifiers :
             /\ Cardinality(VotesCast(gov', p, n)) <= 1
             /\ <<p, n>> \in gov'.voted <=> VotesCast(gov', p, n) # {}]_vars

\* a second, otherwise acceptable vote of a nullifier on a proposal it has
\* voted on was refused
C13_Witness ==
    /\ vote_tx.stateful = "NullifierAlreadyVoted"
    /\ VotesCast(gov, vote_tx.vote.proposal, vote_tx.vote.nullifier) # {}

\* no call whose error execute returns comes after a write
NoFallibleAfterWrite(steps) ==
    \A i, j \in DOMAIN steps : (i < j /\ steps[i] = "write") => steps[j] # "fallible"

\* C14: whenever check_stateful of a DelegatorVote returned Ok on a state,
\* execute on that state returns Ok, and no fallible step of execute runs
\* after execute has written to the state.
C14_ExecuteNeverFails ==
    vote_tx.stateful = "Ok" =>
        /\ vote_tx.execute = "Ok"
        /\ NoFallibleAfterWrite(vote_tx.steps)

\* the step delivers an IBC message
DeliverIbcStep == ibc_tx = NoIbcTx /\ ibc_tx' # NoIbcTx

\* try_execute ran and returned an error
TryExecuteFailed(t) == t.stateless = "Ok" /\ t.result \notin {"Ok", "Panic"}

\* C15: whenever try_execute of MsgChannelOpenInit, MsgChannelOpenConfirm or
\* MsgCreateClient returns an error, the state it was given is the state it
\* leaves: no channel, sequence, client, consensus state or counter was put
\* and no event was recorded.
C15_FailedTryExecuteWritesNothing ==
    [][(DeliverIbcStep /\ TryExecuteFailed(ibc_tx'))
          => /\ ibc_tx'.st = ibc
             /\ ibc' = ibc]_vars

\* the last check of channel_open_confirm before its writes failed, and the
\* state is the one before the message
C15_Witness ==
    /\ ibc_tx.msg.type = "ChannelOpenConfirm"
    /\ ibc_tx.result = "ProofVerificationFailed"
    /\ ibc_tx.st = ibc
    /\ ibc.events = <<>>

\* C16: MsgChannelOpenConfirm succeeds only on a channel stored at the
\* message's port and channel id in state TryOpen, whose first connection
\* hop is a stored connection in state Open, with a proof of the expected
\* counterparty channel end, on the port 'transfer'; its only change to the
\* stored channel ends is that channel's state becoming Open, so a channel
\* in state Open or Init is never confirmed.
C16_ConfirmOnlyTryOpen ==
    [][(DeliverIbcStep /\ ibc_tx'.msg.type = "ChannelOpenConfirm" /\ ibc_tx'.result = "Ok")
          => LET m == ibc_tx'.msg
                 k == <<m.port_id_on_b, m.chan_id_on_b>>
             IN  /\ k \in DOMAIN ibc.channels
                 /\ ibc.channels[k].state = "TryOpen"
                 /\ ibc.channels[k].connection_hops[1] \in DOMAIN ibc.connections
                 /\ ibc.connections[ibc.channels[k].connection_hops[1]].state = "Open"
                 /\ m.proof_chan_end_on_a.channel.state = "Open"
                 /\ m.proof_chan_end_on_a.channel.remote =
                        [port_id |-> m.port_id_on_b, channel_id |-> Some(m.chan_id_on_b)]
                 /\ m.proof_chan_end_on_a.channel.ordering = ibc.channels[k].ordering
                 /\ m.proof_chan_end_on_a.channel.version = ibc.channels[k].version
                 /\ Some(m.proof_chan_end_on_a.channel_id) = ibc.channels[k].remote.channel_id
                 /\ m.port_id_on_b = PortIdTransfer
                 /\ ibc'.channels = [ibc.channels EXCEPT ![k].state = "Open"]]_vars

\* a TryOpen channel was confirmed and is Open, and a later confirmation of
\* the same channel was refused
C16_Witness ==
    /\ ibc_tx.msg.type = "ChannelOpenConfirm"
    /\ ibc_tx.result = "ChannelNotInCorrectState"
    /\ \E i \in DOMAIN ibc.events :
          ibc.events[i] = <<"OpenConfirm", ibc_tx.msg.port_id_on_b, ibc_tx.msg.chan_id_on_b,
                            "connection-0">>

\* C17: Ics20Withdrawal::validate returns Ok exactly when timeout_height is
\* non-zero, timeout_time is non-zero and source_port is 'transfer', and an
\* error for every other withdrawal.
C17_ValidateOkExactly ==
    withdrawal_result # "none" =>
        (withdrawal_result = "Ok" <=>
            /\ withdrawal.timeout_height # 0
            /\ withdrawal.timeout_time # 0
            /\ withdrawal.source_port = "transfer")

\* a withdrawal on the port 'transfer' with a timeout height and no timeout
\* time was refused
C17_Witness ==
    /\ withdrawal.timeout_height # 0
    /\ withdrawal.timeout_time = 0
    /\ withdrawal.source_port = "transfer"
    /\ withdrawal_result \notin {"none", "Ok"}

\* the Merkle root of a key/value content
RootOfContent(c) == {<<KeyHash(k), ValueHash(c[k][1])>> : k \in {x \in Keys : c[x] # None}}

\* C18: the root hash and the AppHash of every published version are
\* functions of the content the committed writes add up to, whatever the
\* history that produced it: the root is the Merkle root of the content and
\* the AppHash is SHA256('PenumbraAppHash' || root); the root hash a commit
\* returns is that root.
C18_AppHashOfContent ==
    /\ \A v \in CachedVersions :
          /\ v \in DOMAIN content
          /\ SnapshotRootHash(db, v) = RootOfContent(content[v])
          /\ SnapshotAppHash(db, v) = <<"sha256", <<"PenumbraAppHash", RootOfContent(content[v])>>>>
    /\ \A p \in Procs :
          task[p].pc = "send" => task[p].root_hash = RootOfContent(content[task[p].new_version])

\* the step is a call of get_with_proof_to_apphash
ReadStep == proof_read = NoRead /\ proof_read' # NoRead

\* C19: get_with_proof_to_apphash(key) on a snapshot returns the key's value
\* (None when the key is absent) and a proof of exactly two parts: first the
\* tree's membership proof of the key when a value is returned and its
\* non-membership proof otherwise, then an existence proof with the key
\* 'PenumbraAppHash', the snapshot's tree root as value and an empty path,
\* whose leaf hash SHA256(key || value) is the snapshot's AppHash.
C19_ProofToAppHash ==
    [][ReadStep =>
          LET r == proof_read'
              root == SnapshotRootHash(db, r.version)
          IN  /\ r.value = SnapshotGet(db, r.version, r.key)
              /\ Len(r.proofs) = 2
              /\ r.proofs[1].key = r.key
              /\ r.proofs[1].kind = IF r.value = None THEN "NonExist" ELSE "Exist"
              /\ r.value # None => r.proofs[1].value = r.value[1]
              /\ r.proofs[2].kind = "Exist"
              /\ r.proofs[2].key = "PenumbraAppHash"
              /\ r.proofs[2].value = root
              /\ r.proofs[2].path = <<>>
              /\ ApplyLeafOp(r.proofs[2].leaf, r.proofs[2].key, r.proofs[2].value)
                    = SnapshotAppHash(db, r.version)
              /\ SnapshotAppHash(db, r.version) = <<"sha256", <<"PenumbraAppHash", root>>>>]_vars

\* a read of an absent key from a snapshot that holds another key returned
\* None with a non-membership proof and the proof of the root
C19_Witness ==
    /\ proof_read # NoRead
    /\ proof_read.value = None
    /\ proof_read.proofs[1].kind = "NonExist"
    /\ proof_read.proofs[2].value # {}

\* version a is not after version b, the version before genesis being first
VersionLeq(a, b) ==
    a = U64Max \/ (b # U64Max /\ LexLeq(ToBeBytes(a), ToBeBytes(b)))

\* every write of the commit of task p is in the database
AllWritten(d, p) ==
    LET ops == KeyIndexOps(task[p].changes) \o NodeBatchOps(task[p].batch)
               \o NonverifiableOps(task[p].nv)
    IN  ApplyOps(d, ops, Len(ops)) = d

\* C20: in a successful commit the snapshot of the new version is pushed
\* into the cache only after all writes of the version are in the database,
\* the notification is sent after the push, and neither step writes; a
\* subscriber that observes version V finds latest_version() at least V and
\* reads, from the snapshot of V, every key written at V as it was written.
C20_PushThenNotify ==
    /\ [][/\ snapshots' # snapshots =>
                \E p \in Procs :
                    /\ task[p].pc = "push" /\ task'[p].pc = "send"
                    /\ Latest(snapshots') = task[p].new_version
                    /\ AllWritten(db, p)
                    /\ db' = db
                    /\ state_tx' = state_tx
          /\ state_tx' # state_tx =>
                \E p \in Procs :
                    /\ task[p].pc = "send"
                    /\ state_tx'.value = task[p].new_version
                    /\ state_tx'.value \in CachedVersions
                    /\ AllWritten(db, p)
                    /\ db' = db]_vars
    /\ [](state_tx.value # U64Max =>
            /\ VersionLeq(state_tx.value, LatestVersion)
            /\ state_tx.value \in DOMAIN written_at
            /\ \A k \in DOMAIN written_at[state_tx.value] :
                  SnapshotGet(db, state_tx.value, k) = written_at[state_tx.value][k])

\* a step of the client: a call returns or its result is let go, a receiver
\* is handed out or dropped, a StateDelta is made, written to or dropped
ClientStep == api' # api \/ delta' # delta \/ Len(receivers') # Len(receivers)

\* C21: latest_version, latest_snapshot, snapshot, subscribe and a StateDelta
\* that is written to and dropped leave the column families, the version and
\* the snapshot cache unchanged; these change only in a step of commit.
C21_OnlyCommitDurable ==
    [][/\ ClientStep => (db' = db /\ snapshots' = snapshots)
       /\ (db' # db \/ snapshots' # snapshots) =>
             (~ClientStep /\ \E p \in Procs : InFlight(p) /\ task'[p] # task[p])]_vars

\* a delta with a put is held over a store that has committed a version
C21_Witness ==
    /\ delta # NoDelta
    /\ \E k \in DOMAIN delta.changes : delta.changes[k] # None
    /\ LatestVersion # U64Max
    /\ db = committed_db

\* C29: with one commit at a time, the snapshot commit_inner pushes has the
\* version that follows the cache's latest one, also when the first commit
\* wraps from u64::MAX to 0: try_push accepts it and no commit panics.
C29_PushConsecutive ==
    /\ [][\A p \in Procs :
            (task[p].pc = "push" /\ task'[p] # task[p]) =>
                /\ task[p].new_version = WrappingAdd1(LatestVersion)
                /\ task'[p].pc = "send"
                /\ Latest(snapshots') = task[p].new_version
                /\ Tail(snapshots') = snapshots]_vars
    /\ [](\A p \in Procs : task[p].result # "Panic")

\* the commit after the one that wrapped to version 0 has pushed version 1
C29_Witness ==
    /\ snapshots = <<WrappingAdd1(U64Zero), U64Zero, U64Max>>
    /\ task[1].pc = "send"

\* C30: a receiver is notified of exactly the versions sent after its
\* subscribe call; a commit that returns Ok has sent one notification, of
\* its new version, to every receiver (to none when there is no receiver); a
\* commit that fails sends nothing.
C30_NotifiedOfLaterCommits ==
    /\ [][\A p \in Procs :
            task'[p] # task[p] =>
                /\ task'[p].result = "Ok" =>
                      /\ task[p].pc = "send"
                      /\ state_tx'.sends = state_tx.sends + 1
                      /\ state_tx'.value = task[p].new_version
                      /\ task[p].new_version \in CachedVersions
                      /\ Len(receivers') = Len(receivers)
                      /\ \A i \in 1..Len(receivers) :
                            receivers'[i].notified =
                                Append(receivers[i].notified, task[p].new_version)
                /\ task'[p].result # "Ok" =>
                      (state_tx' = state_tx /\ receivers' = receivers)]_vars
    /\ [](/\ state_tx.sends + Cardinality({p \in Procs : task[p].pc = "send"})
               = Cardinality(DOMAIN published) - 1
          /\ \A i \in 1..Len(receivers) :
                /\ Len(receivers[i].notified) = state_tx.sends - receivers[i].since
                /\ \A j \in 1..Len(receivers[i].notified) :
                      receivers[i].notified[j] = AddN(U64Zero, receivers[i].since + j - 1))

\* version 0 was committed with no receiver, then a receiver subscribed and
\* was notified of version 1
C30_Witness ==
    /\ Len(receivers) = 1
    /\ receivers[1].since = 1
    /\ receivers[1].notified = <<WrappingAdd1(U64Zero)>>
    /\ task[1].result = "Ok"

\* C26: when no commit is running, the forward index jmt_keys and the
\* reverse index jmt_keys_by_keyhash are inverses of each other, and they
\* hold a key exactly when the last committed write of the key was a put.
C26_KeyIndexInverse ==
    (\A p \in Procs : task[p].pc = "idle") =>
        /\ \A k \in DOMAIN db.jmt_keys :
              /\ db.jmt_keys[k] \in DOMAIN db.jmt_keys_by_keyhash
              /\ db.jmt_keys_by_keyhash[db.jmt_keys[k]] = k
        /\ \A h \in DOMAIN db.jmt_keys_by_keyhash :
              /\ db.jmt_keys_by_keyhash[h] \in DOMAIN db.jmt_keys
              /\ db.jmt_keys[db.jmt_keys_by_keyhash[h]] = h
        /\ \A k \in Keys :
              k \in DOMAIN db.jmt_keys <=> content[LatestVersion][k] # None

\* C27: the nonverifiable writes of a commit leave the tree's column
\* families and the key index as they are, so the root hash of the new
\* version and the root hash the commit returns are those of the commit
\* without them; each nonverifiable put and delete is applied to the
\* nonverifiable column family; and the push that follows advances the
\* version by one, whether or not the delta has a verifiable change.
C27_NonverifiableBypassTree ==
    [][\A p \in Procs :
          /\ (task[p].pc = "nonverifiable" /\ task'[p].pc = "push") =>
                /\ db'.jmt = db.jmt
                /\ db'.jmt_values = db.jmt_values
                /\ db'.jmt_keys = db.jmt_keys
                /\ db'.jmt_keys_by_keyhash = db.jmt_keys_by_keyhash
                /\ SnapshotRootHash(db', task[p].new_version)
                      = SnapshotRootHash(db, task[p].new_version)
                /\ task'[p].root_hash = task[p].root_hash
                /\ \A k \in NvKeys :
                      IF k \notin DOMAIN task[p].nv
                      THEN (k \in DOMAIN db'.nonverifiable <=> k \in DOMAIN db.nonverifiable)
                           /\ (k \in DOMAIN db.nonverifiable =>
                                   db'.nonverifiable[k] = db.nonverifiable[k])
                      ELSE IF task[p].nv[k] = None
                      THEN k \notin DOMAIN db'.nonverifiable
                      ELSE k \in DOMAIN db'.nonverifiable
                           /\ db'.nonverifiable[k] = task[p].nv[k][1]
          /\ (task[p].pc = "push" /\ task'[p].pc = "send") =>
                /\ LatestVersion' = WrappingAdd1(LatestVersion)
                /\ LatestVersion' = task[p].new_version]_vars

\* a commit whose delta has a nonverifiable put and no verifiable change has
\* pushed its version, after a commit that wrote the tree
C27_Witness ==
    /\ task[1].pc = "send"
    /\ task[1].changes = EmptyMap
    /\ "n" \in DOMAIN task[1].nv
    /\ "n" \in DOMAIN db.nonverifiable
    /\ LatestVersion = WrappingAdd1(U64Zero)
    /\ content[U64Zero]["a"] # None

\* C25: when every commit so far has succeeded or was refused before its
\* first write, reopening the store leaves latest_version() at the version
\* of the last successful commit, which is u64::MAX only if no commit has
\* succeeded.
C25_ReopenKeepsVersion ==
    [][(/\ snapshots' # snapshots \/ state_tx' # state_tx
        /\ \A p \in Procs : task'[p] = task[p]
        /\ nfaults = 0) =>
            /\ LatestVersion' = LatestVersion
            /\ (LatestVersion' = U64Max => DOMAIN published = {U64Max})]_vars

\* the versions of the CacheSize last snapshots made after n commits, the
\* pre-genesis snapshot counting as the first
RecentVersions(n) ==
    {AddN(U64Max, j) : j \in (IF n >= CacheSize THEN n - CacheSize + 1 ELSE 0)..n}

\* C28: the cache never holds more than 10 snapshots; snapshot(v) returns the
\* snapshot of version v when v is one of the 10 latest versions, and None
\* for a version evicted or never committed; latest_snapshot() has the
\* version of the last successful commit.
C28_CacheBounded ==
    /\ Len(snapshots) <= CacheSize
    /\ CachedVersions = RecentVersions(ncommits)
    /\ LatestVersion = AddN(U64Max, ncommits)
    /\ api.call = "snapshot" =>
          api.result = (IF api.arg \in RecentVersions(ncommits)
                        THEN Some(api.arg) ELSE None)
    /\ api.call = "latest_snapshot" => api.result = AddN(U64Max, ncommits)

\* after eleven commits the snapshot of version 0 has been evicted and
\* snapshot(0) returns None
C28_Witness ==
    /\ ncommits = CacheSize + 1
    /\ api.call = "snapshot"
    /\ api.arg = U64Zero
    /\ api.result = None
    /\ Len(snapshots) = CacheSize


\* C24: after plan_with_spendable_and_votable_notes has returned, the
\* planner's balance is zero, its vote intents are empty and its plan is the
\* default empty plan: no action, no memo and no fee of the previous use is
\* left in it.
C24_PlannerCleared ==
    planner.result # None =>
        /\ BalanceIsZero(planner.p.balance)
        /\ planner.p.vote_intents = {}
        /\ planner.p.plan = PlanDefault


\* C23: for every position id and state, the denomination of
\* LpNft::new(id, state) parses back, through TryFrom<DenomMetadata> and
\* through FromStr on its string, to an LpNft with the same position id and
\* the same state, and the LpNft's Display string is its denomination's
\* string.
C23_LpNftRoundTrip ==
    /\ nft.stage \in {"try_from", "from_str"} =>
           /\ nft.result.ok
           /\ LpNftEq(nft.result.value, nft.lpnft)
           /\ nft.result.value.position_id = nft.position_id
           /\ nft.result.value.state = nft.state
    /\ nft.stage \in {"new", "try_from", "from_str"} =>
           /\ LpNftDisplay(nft.lpnft) = DenomToString(nft.lpnft.base_denom)
           /\ LpNftDisplay(nft.lpnft) =
                  LpnftPrefix \o StateDisplay(nft.state) \o <<"_">> \o IdDisplay(nft.position_id)

\* a withdrawn position whose id is written with a digit has been parsed
\* back from its string
C23_Witness ==
    /\ nft.stage = "from_str"
    /\ nft.state = "Withdrawn"
    /\ \E i \in DOMAIN nft.position_id : Bech32Charset[nft.position_id[i] + 1] \in Digits
    /\ nft.result.ok
    /\ nft.result.value.position_id = nft.position_id


C35_EpochDurationMustMatch ==
    [][CheckStatefulStep /\ tx'.cur.epoch_duration # GetEpochDuration(View)
          => /\ tx'.result = "EpochDurationMismatch"
             /\ tx'.pc # "checked"
             /\ tx'.st = GenesisState]_vars

\* a claim with another epoch duration was refused although its output data
\* is the recorded one and its nullifier is unspent
C35_Witness ==
    /\ tx.result = "EpochDurationMismatch"
    /\ tx.cur.epoch_duration # GetEpochDuration(block)
    /\ RecordedFor(block, tx.cur) = Some(tx.cur.output_data)
    /\ CheckNullifierUnspent(block, tx.cur.nullifier)


\* the nullifier-unspent check of the shielded pool, on the governance
\* model's record of the nullifiers spent
NullifierUnspent(st, nullifier) == nullifier \notin DOMAIN st.spent_at

\* C36: the execute of a DelegatorVote does not spend the nullifier: the
\* nullifiers spent are those spent before, so the nullifier-unspent check
\* of the vote's nullifier passes after the vote if it passed before, and
\* the nullifier is as free to vote on any other proposal as it was;
\* execute adds the voted marker of (proposal, nullifier) and one vote to
\* the tally and changes nothing else.
C36_VoteDoesNotSpend ==
    [][(DeliverVoteStep /\ vote_tx'.execute # "none")
          => LET v == vote_tx'.vote
             IN  /\ gov'.spent_at = gov.spent_at
                 /\ NullifierUnspent(gov, v.nullifier) => NullifierUnspent(gov', v.nullifier)
                 /\ \A q \in Proposals \ {v.proposal} :
                        CheckNullifierUnvoted(gov', q, v.nullifier)
                            = CheckNullifierUnvoted(gov, q, v.nullifier)
                 /\ gov'.voted = gov.voted \cup {<<v.proposal, v.nullifier>>}
                 /\ Len(gov'.tally) = Len(gov.tally) + 1
                 /\ SubSeq(gov'.tally, 1, Len(gov.tally)) = gov.tally
                 /\ gov'.tally[Len(gov'.tally)][1] = v.proposal
                 /\ gov'.tally[Len(gov'.tally)][3] = v.nullifier
                 /\ gov'.proposals = gov.proposals
                 /\ gov'.height = gov.height]_vars

\* a nullifier that has voted on a proposal has just voted on the other
\* one, and its note is still unspent
C36_Witness ==
    /\ vote_tx.execute = "Ok"
    /\ \A q \in Proposals : VotesCast(gov, q, vote_tx.vote.nullifier) # {}
    /\ NullifierUnspent(gov, vote_tx.vote.nullifier)


\* the step delivers a message of this type whose try_execute returns Ok
IbcOkStep(type) ==
    DeliverIbcStep /\ ibc_tx'.msg.type = type /\ ibc_tx'.result = "Ok"

\* the last event recorded
LastEvent(st) == st.events[Len(st.events)]

\* C32: a successful MsgChannelOpenInit writes its channel under the id it
\* checked for non-existence, the id of the channel counter before the call;
\* no channel was there, the channels that were there are left as they
\* were, and the counter moves on by one, so every channel id in use is
\* below the counter and the next init takes a fresh one.
C32_InitNeverOverwrites ==
    [][/\ IbcOkStep("ChannelOpenInit")
             => LET k == <<ibc_tx'.msg.port_id_on_a, ibc.channel_counter>>
                IN  /\ k \notin DOMAIN ibc.channels
                    /\ DOMAIN ibc'.channels = DOMAIN ibc.channels \cup {k}
                    /\ \A j \in DOMAIN ibc.channels : ibc'.channels[j] = ibc.channels[j]
                    /\ LastEvent(ibc')[3] = ibc.channel_counter
                    /\ ibc'.channel_counter = ibc.channel_counter + 1
       /\ \A j \in DOMAIN ibc'.channels : j[2] < ibc'.channel_counter
       /\ Cardinality(DOMAIN ibc'.channels) = ibc'.channel_counter]_vars

\* two inits have succeeded, and a third channel came from the
\* counterparty's handshake in between or around them
C32_Witness ==
    /\ Cardinality({k \in DOMAIN ibc.channels : ibc.channels[k].state = "Init"}) = 2
    /\ Cardinality(DOMAIN ibc.channels) = 3
    /\ ibc.channel_counter = 3


\* C33: a MsgChannelOpenInit that succeeds has exactly one connection hop,
\* the connection of that hop exists, in whatever state, and the port is
\* 'transfer'; the channel it creates is in state Init with no counterparty
\* channel id, and the send, receive and ack sequence numbers of the channel
\* are 1.
C33_InitRequirements ==
    [][IbcOkStep("ChannelOpenInit")
          => LET msg == ibc_tx'.msg
                 k == <<msg.port_id_on_a, LastEvent(ibc')[3]>>
             IN  /\ Len(msg.connection_hops_on_a) = 1
                 /\ msg.connection_hops_on_a[1] \in DOMAIN ibc.connections
                 /\ msg.port_id_on_a = PortIdTransfer
                 /\ k \in DOMAIN ibc'.channels
                 /\ ibc'.channels[k].state = "Init"
                 /\ ibc'.channels[k].remote.channel_id = None
                 /\ ibc'.channels[k].connection_hops = msg.connection_hops_on_a
                 /\ ibc'.send_seq[k] = 1
                 /\ ibc'.recv_seq[k] = 1
                 /\ ibc'.ack_seq[k] = 1]_vars

\* an init has succeeded over a connection that is not open
C33_Witness ==
    /\ ibc_tx.msg.type = "ChannelOpenInit"
    /\ ibc_tx.result = "Ok"
    /\ ibc.connections[ibc_tx.msg.connection_hops_on_a[1]].state = "Init"
    /\ \E k \in DOMAIN ibc.channels : ibc.channels[k].state = "Init" /\ ibc.send_seq[k] = 1


MaxReadCommits == 2

\* the call's first await: self.get_with_proof(key) on the snapshot
ReadGetWithProof ==
    /\ proof_read = NoRead
    /\ \E version \in CachedVersions, key \in Keys :
          LET got == SnapshotGetWithProof(db, version, key)
          IN  proof_read' = [version |-> version, key |-> key, value |-> got.value,
                             proofs |-> <<got.proof>>]
    /\ UNCHANGED notRead

\* the call's second await: self.root_hash() on the same snapshot, and the
\* proof of the root to the AppHash
ReadRootHash ==
    /\ proof_read # NoRead
    /\ Len(proof_read.proofs) = 1
    /\ LET jmt_root == SnapshotRootHash(db, proof_read.version)
           root_proof == [kind |-> "Exist", key |-> APPHASH_DOMSEP, value |-> jmt_root,
                          path |-> <<>>, leaf |-> ApphashSpecLeaf]
       IN  proof_read' = [proof_read EXCEPT !.proofs = @ \o <<root_proof>>]
    /\ UNCHANGED notRead

\* two tasks committing and a client in one call of get_with_proof_to_apphash
ReadRaceNext ==
    \/ \E p \in Procs :
        \/ ncommits < MaxReadCommits /\ Commit(p)
        \/ CommitInnerKeys(p)
        \/ CommitInnerPutValueSet(p)
        \/ WriteNodeBatch(p)
        \/ CommitInnerNonverifiable(p)
        \/ CommitInnerPush(p)
        \/ CommitInnerSend(p)
    \/ ReadGetWithProof
    \/ ReadRootHash

ReadRaceSpec == Init /\ [][ReadRaceNext]_vars

\* the step is the root_hash read of a call of get_with_proof_to_apphash
ReadRootStep ==
    /\ proof_read # NoRead
    /\ Len(proof_read.proofs) = 1
    /\ proof_read' # NoRead
    /\ Len(proof_read'.proofs) = 2

MaxFmdClues == 2
\* precisions a clue or the parameters can carry
MaxPrecision == 2
\* the height at which the previous parameters took effect
MaxAsOfHeight == 2

FMD_GRACE_PERIOD_BLOCKS == 10

\* the check of a clue with the grace period one block longer
ClueAcceptedInclusive(precision_bits, previous_fmd_parameters, current_fmd_parameters, height) ==
    \/ precision_bits = current_fmd_parameters.precision_bits
    \/ /\ precision_bits = previous_fmd_parameters.precision_bits
       /\ height <= previous_fmd_parameters.as_of_block_height + FMD_GRACE_PERIOD_BLOCKS

\* the clue passes: it uses the current FmdParameters or is within the grace
\* period of the previous ones
ClueAccepted(precision_bits, previous_fmd_parameters, current_fmd_parameters, height) ==
    \/ precision_bits = current_fmd_parameters.precision_bits
    \/ /\ precision_bits = previous_fmd_parameters.precision_bits
       /\ height < previous_fmd_parameters.as_of_block_height + FMD_GRACE_PERIOD_BLOCKS

\* the loop over the clues: continue on a clue that passes, return the error
\* on the first that does not
RECURSIVE CheckClues(_, _, _, _)
CheckClues(fmd_clues, previous_fmd_parameters, current_fmd_parameters, height) ==
    IF fmd_clues = <<>> THEN "Ok"
    ELSE IF ClueAccepted(Head(fmd_clues), previous_fmd_parameters,
                         current_fmd_parameters, height)
         THEN CheckClues(Tail(fmd_clues), previous_fmd_parameters,
                         current_fmd_parameters, height)
         ELSE "consensus rule violated: invalid clue precision"

\* tx.transaction_body().detection_data.unwrap_or_default().fmd_clues
FmdCluesOf(transaction) ==
    IF transaction.detection_data = None THEN <<>> ELSE transaction.detection_data[1].fmd_clues

fmd_precision_within_grace_period(transaction, previous_fmd_parameters, current_fmd_parameters, height) ==
    CheckClues(FmdCluesOf(transaction), previous_fmd_parameters, current_fmd_parameters, height)

\* lists of the precisions of up to n clues
RECURSIVE PrecisionLists(_)
PrecisionLists(n) ==
    IF n = 0 THEN {<<>>}
    ELSE PrecisionLists(n - 1) \cup
         {Append(l, c) : l \in {x \in PrecisionLists(n - 1) : Len(x) = n - 1},
                         c \in 0..MaxPrecision}

FmdParameters == [precision_bits : 0..MaxPrecision, as_of_block_height : 0..MaxAsOfHeight]

\* transactions by their detection data, and the state the check reads
FmdInputs ==
    [stage : {"input"},
     tx : [detection_data : {None} \cup {Some([fmd_clues |-> l]) : l \in PrecisionLists(MaxFmdClues)}],
     previous : FmdParameters,
     current : [precision_bits : 0..MaxPrecision, as_of_block_height : {MaxAsOfHeight}],
     height : 0..(MaxAsOfHeight + FMD_GRACE_PERIOD_BLOCKS + 1)]

\* fmd_parameters_valid(state, transaction)
FmdParametersValid ==
    /\ fmd.stage = "input"
    /\ fmd' = [fmd EXCEPT !.stage = "checked"] @@
              [result |-> fmd_precision_within_grace_period(fmd.tx, fmd.previous,
                                                            fmd.current, fmd.height)]
    /\ UNCHANGED <<ratio, pcli>>
    /\ UNCHANGED notCall

FmdNext == FmdParametersValid

FmdInit == RestInit /\ CodecIdle /\ NftIdle /\ PlannerInit /\ RatioIdle /\ PcliIdle /\ fmd \in FmdInputs

FmdSpec == FmdInit /\ [][FmdNext]_vars

\* C37: fmd_precision_within_grace_period accepts a transaction exactly when
\* every clue's precision equals the current FMD precision, or equals the
\* previous FMD precision while block_height is below the previous
\* parameters' as_of_block_height + 10; a transaction with no detection data
\* or with no clues is accepted, and one offending clue rejects the whole
\* transaction.
C37_GracePeriod ==
    fmd.stage = "checked" =>
        LET clues == IF fmd.tx.detection_data = None THEN <<>>
                     ELSE fmd.tx.detection_data[1].fmd_clues
            Good(c) == \/ c = fmd.current.precision_bits
                       \/ /\ c = fmd.previous.precision_bits
                          /\ fmd.height < fmd.previous.as_of_block_height + 10
        IN  /\ fmd.result = "Ok" <=> \A i \in 1..Len(clues) : Good(clues[i])
            /\ fmd.tx.detection_data = None => fmd.result = "Ok"
            /\ clues = <<>> => fmd.result = "Ok"
            /\ (\E i \in 1..Len(clues) : ~Good(clues[i])) => fmd.result # "Ok"

\* a transaction of two clues was rejected in the first block after the grace
\* period: the first clue uses the current precision, the second the
\* previous one
C37_Witness ==
    /\ fmd.stage = "checked"
    /\ fmd.tx.detection_data # None
    /\ Len(fmd.tx.detection_data[1].fmd_clues) = 2
    /\ fmd.tx.detection_data[1].fmd_clues[1] = fmd.current.precision_bits
    /\ fmd.tx.detection_data[1].fmd_clues[2] = fmd.previous.precision_bits
    /\ fmd.previous.precision_bits # fmd.current.precision_bits
    /\ fmd.height = fmd.previous.as_of_block_height + 10
    /\ fmd.result # "Ok"


(***************************************************************************)
(* Ratio: two u64 compared by cross-multiplication in u128.  The widths    *)
(* are scaled: a u64 is a number of RatioBits bits, a u128 one of twice as *)
(* many.                                                                   *)
(***************************************************************************)
RatioBits == 4
\* the small numerators and denominators, next to the largest two
MaxRatioSmall == 2
\* characters of a text given to Ratio::from_str
MaxRatioText == 3

RatioU64Max == 2 ^ RatioBits - 1
RatioU128Max == 2 ^ (2 * RatioBits) - 1

\* u128::from(x) * u128::from(y): the product in u128 and whether the
\* multiplication overflowed
MulU128(x, y) ==
    [value |-> (x * y) % (RatioU128Max + 1), overflow |-> x * y > RatioU128Max]

\* Ratio::new
RatioNew(numerator, denominator) ==
    [numerator |-> numerator, denominator |-> denominator]

\* PartialEq::eq
RatioEq(self, other) ==
    MulU128(self.numerator, other.denominator).value
        = MulU128(self.denominator, other.numerator).value

\* Ord::cmp
RatioCmp(self, other) ==
    LET l == MulU128(self.numerator, other.denominator).value
        r == MulU128(self.denominator, other.numerator).value
    IN  IF l < r THEN "Less" ELSE IF l = r THEN "Equal" ELSE "Greater"

\* a multiplication of the comparison of the two overflowed
RatioOverflow(self, other) ==
    \/ MulU128(self.numerator, other.denominator).overflow
    \/ MulU128(self.denominator, other.numerator).overflow

DigitValue(c) ==
    CASE c = "0" -> 0 [] c = "1" -> 1 [] c = "2" -> 2 [] c = "3" -> 3 [] c = "4" -> 4
      [] c = "5" -> 5 [] c = "6" -> 6 [] c = "7" -> 7 [] c = "8" -> 8 [] c = "9" -> 9

\* str::parse::<u64> of a sequence of characters: None for the empty text,
\* for a character that is no digit and for a number above u64::MAX
RECURSIVE ParseDigits(_, _)
ParseDigits(s, acc) ==
    IF s = <<>> THEN Some(acc)
    ELSE IF Head(s) \notin Digits THEN None
    ELSE LET n == acc * 10 + DigitValue(Head(s))
         IN  IF n > RatioU64Max THEN None ELSE ParseDigits(Tail(s), n)

ParseU64(s) == IF s = <<>> THEN None ELSE ParseDigits(s, 0)

\* s.split('/'): the parts between the slashes
RECURSIVE SplitSlash(_)
SplitSlash(s) ==
    IF \A i \in 1..Len(s) : s[i] # "/" THEN <<s>>
    ELSE LET i == CHOOSE j \in 1..Len(s) : s[j] = "/" /\ \A k \in 1..(j - 1) : s[k] # "/"
         IN  <<SubSeq(s, 1, i - 1)>> \o SplitSlash(SubSeq(s, i + 1, Len(s)))

\* Ratio::from_str: the Ratio, or None for an error
RatioFromStr(s) ==
    LET parts == SplitSlash(s)
        numerator == ParseU64(parts[1])
        denominator == IF Len(parts) >= 2 THEN ParseU64(parts[2]) ELSE None
    IN  IF numerator = None THEN None
        ELSE IF denominator = None THEN None
        ELSE IF Len(parts) >= 3 THEN None
        ELSE Some([numerator |-> numerator[1], denominator |-> denominator[1]])

RatioValues == 0..MaxRatioSmall \cup {RatioU64Max - 1, RatioU64Max}

RECURSIVE RatioTexts(_)
RatioTexts(n) ==
    IF n = 0 THEN {<<>>}
    ELSE RatioTexts(n - 1) \cup
         {Append(t, c) : t \in {x \in RatioTexts(n - 1) : Len(x) = n - 1},
                         c \in {"0", "1", "3", "/", "x"}}

\* every Ratio that Ratio::new makes of RatioValues or from_str of a text
Ratios ==
    {RatioNew(n, d) : n \in RatioValues, d \in RatioValues}
        \cup {RatioFromStr(t)[1] : t \in {x \in RatioTexts(MaxRatioText) : RatioFromStr(x) # None}}

\* three Ratios, not compared yet
RatioInputs == [stage : {"input"}, a : Ratios, b : Ratios, c : Ratios]

\* the comparisons of the three with each other
RatioCompare ==
    /\ ratio.stage = "input"
    /\ LET r == <<ratio.a, ratio.b, ratio.c>>
       IN  ratio' = [stage |-> "compared", a |-> ratio.a, b |-> ratio.b, c |-> ratio.c,
                     eq |-> [i \in 1..3 |-> [j \in 1..3 |-> RatioEq(r[i], r[j])]],
                     cmp |-> [i \in 1..3 |-> [j \in 1..3 |-> RatioCmp(r[i], r[j])]],
                     overflow |-> \E i, j \in 1..3 : RatioOverflow(r[i], r[j])]
    /\ UNCHANGED <<fmd, pcli>>
    /\ UNCHANGED notCall

RatioNext == RatioCompare

RatioInit == RestInit /\ CodecIdle /\ NftIdle /\ PlannerInit /\ FmdIdle /\ PcliIdle /\ ratio \in RatioInputs

RatioSpec == RatioInit /\ [][RatioNext]_vars

\* the order cmp gives: a is not above b
RatioLeq(i, j) == ratio.cmp[i][j] \in {"Less", "Equal"}

\* C38: comparing Ratios by cross-multiplication in 128-bit arithmetic never
\* overflows, Ratio equality is an equivalence relation (reflexive,
\* symmetric, transitive) and cmp is a total order consistent with it (a == b
\* exactly when cmp(a, b) is Equal), for every Ratio that Ratio::new or
\* parsing 'n/d' can produce, ratios with a zero denominator included.
C38_RatioOrder ==
    ratio.stage = "compared" =>
        /\ ~ratio.overflow
        /\ \A i \in 1..3 : ratio.eq[i][i]
        /\ \A i, j \in 1..3 : ratio.eq[i][j] => ratio.eq[j][i]
        /\ \A i, j, k \in 1..3 : (ratio.eq[i][j] /\ ratio.eq[j][k]) => ratio.eq[i][k]
        /\ \A i, j \in 1..3 : ratio.eq[i][j] <=> ratio.cmp[i][j] = "Equal"
        /\ \A i, j \in 1..3 : RatioLeq(i, j) \/ RatioLeq(j, i)
        /\ \A i, j \in 1..3 : (ratio.cmp[i][j] = "Less") <=> (ratio.cmp[j][i] = "Greater")
        /\ \A i, j, k \in 1..3 : (RatioLeq(i, j) /\ RatioLeq(j, k)) => RatioLeq(i, k)


\* the sum of balance() over the actions of a plan
RECURSIVE SumBalances(_)
SumBalances(actions) ==
    IF actions = <<>> THEN BalanceZero
    ELSE ActionBalance(SumBalances(SubSeq(actions, 1, Len(actions) - 1)),
                       actions[Len(actions)])

\* the value of plan.fee plus the sum of balance() over plan.actions
PlanBalance(plan) ==
    IF plan.fee = None THEN SumBalances(plan.actions)
    ELSE BalanceAdd(SumBalances(plan.actions), plan.fee[1])

\* C39: after a sequence of planner operations with at most one call of fee
\* (fee, spend, output, swap, swap_claim, undelegate_claim, proposal_submit,
\* proposal_withdraw, validator_vote, delegator_vote_precise), the planner's
\* balance is the value of plan.fee plus the sum of balance() over
\* plan.actions, and plan.actions holds the actions in the order they were
\* added: each call leaves the actions before it in place and adds at most
\* one, at the end.  A swap with zero input returns an error and adds no
\* action and no balance.
C39_BalanceTracksPlan ==
    [][LET q == planner'
       IN  /\ q.fees <= 1 => q.p.balance = PlanBalance(q.p.plan)
           /\ q.result = None =>
                 /\ Len(q.p.plan.actions) \in {Len(planner.p.plan.actions),
                                               Len(planner.p.plan.actions) + 1}
                 /\ SubSeq(q.p.plan.actions, 1, Len(planner.p.plan.actions))
                       = planner.p.plan.actions
           /\ q.err # "" => q.p = planner.p
           /\ \A i \in 1..Len(q.p.plan.actions) :
                 q.p.plan.actions[i].kind = "Swap" =>
                     (q.p.plan.actions[i].delta_1 # 0 \/ q.p.plan.actions[i].delta_2 # 0)
      ]_vars

\* after one call of fee and a swap, a swap with zero input has returned its
\* error and the plan holds the one Swap action, the balance what the fee and
\* the swap make it
C39_Witness ==
    /\ planner.fees = 1
    /\ planner.err = "No input value for swap"
    /\ Len(planner.p.plan.actions) = 1
    /\ planner.p.plan.actions[1].kind = "Swap"
    /\ planner.p.plan.fee # None
    /\ ~BalanceIsZero(planner.p.balance)


(***************************************************************************)
(* pcli tx swap: the Swap transaction, then the SwapClaim.  The node       *)
(* includes broadcast transactions in blocks, executes the batch of a      *)
(* block's swaps at the end of the block and records its output data; the  *)
(* view service follows the chain block by block and records the swaps of  *)
(* the wallet it detects.                                                  *)
(***************************************************************************)
\* blocks the node produces in one run
MaxPcliHeight == 3
\* clearing prices a batch can come to
MaxPrice == 2
\* the fee given on the command line
MaxPcliFee == 3

\* the output data of a batch before any was executed
NoOutputData == [height |-> 0, price |-> 0]

\* the view service's record of a detected swap
SwapRecordOf(node) ==
    [position |-> node.swap_height[1], output_data |-> node.output_data[node.swap_height[1]]]

\* SwapClaimPlan built of output data the run holds before it has fetched
\* the record
SwapClaimPlanEarly(swap_plaintext, swap_record, params) ==
    [swap_plaintext |-> swap_plaintext, position |-> swap_record.position,
     output_data |-> NoOutputData, epoch_duration |-> params.epoch_duration]

\* SwapClaimPlan { swap_plaintext, position, output_data, epoch_duration, .. }
SwapClaimPlanNew(swap_plaintext, swap_record, params) ==
    [swap_plaintext |-> swap_plaintext, position |-> swap_record.position,
     output_data |-> swap_record.output_data, epoch_duration |-> params.epoch_duration]

\* the view service has detected the swap transaction in a block
SwapDetected(p) == p.view.swap_record # None

\* a run of pcli tx swap that has not started, on a node without blocks
PcliInputs ==
    [stage : {"start"}, input : 1..MaxAmount, fee : 0..MaxPcliFee,
     swap_plaintext : {None}, swap_record : {None}, claim_plan : {None},
     log : {<<>>},
     chain : {[height |-> 0, open |-> FALSE, mempool |-> {}, swap_height |-> None,
               claim_height |-> None, output_data |-> <<>>]},
     view : {[height |-> 0, swap_record |-> None]}]

PcliFrame == UNCHANGED <<fmd, ratio>> /\ UNCHANGED notCall

\* planner.fee(swap_fee); planner.swap(..); planner.plan(..); the swap
\* plaintext is kept for the claim
PcliPlanSwap ==
    /\ pcli.stage = "start"
    /\ pcli' = [pcli EXCEPT !.stage = "swap planned",
                            !.swap_plaintext = Some([delta_1 |-> pcli.input, delta_2 |-> 0,
                                                     claim_fee |-> pcli.fee \div 2])]
    /\ PcliFrame

\* app.build_and_submit_transaction(plan): the broadcast
PcliSubmitSwap ==
    /\ pcli.stage = "swap planned"
    /\ pcli' = [pcli EXCEPT !.stage = "swap submitted",
                            !.chain.mempool = @ \cup {"swap"},
                            !.log = Append(@, "swap submitted")]
    /\ PcliFrame

\* the node begins a block with some of the transactions broadcast to it
ChainBeginBlock ==
    /\ pcli.stage \notin {"idle", "start"}
    /\ ~pcli.chain.open
    /\ pcli.chain.height < MaxPcliHeight
    /\ \E txs \in SUBSET pcli.chain.mempool :
          LET h == pcli.chain.height + 1
          IN  pcli' = [pcli EXCEPT
                  !.chain.height = h,
                  !.chain.open = TRUE,
                  !.chain.mempool = @ \ txs,
                  !.chain.swap_height = IF "swap" \in txs THEN Some(h) ELSE @,
                  !.chain.claim_height = IF "claim" \in txs THEN Some(h) ELSE @,
                  !.log = IF "swap" \in txs THEN Append(@, "swap included") ELSE @]
    /\ PcliFrame

\* the end of the block: the batch of the block's swaps is executed and its
\* output data recorded under the block's height
ChainEndBlock ==
    /\ pcli.stage # "idle"
    /\ pcli.chain.open
    /\ \E price \in 1..MaxPrice :
          pcli' = [pcli EXCEPT
              !.chain.open = FALSE,
              !.chain.output_data = Append(@, [height |-> pcli.chain.height, price |-> price]),
              !.log = IF pcli.chain.swap_height = Some(pcli.chain.height)
                      THEN Append(@, "batch executed") ELSE @]
    /\ PcliFrame

\* the view service scans the next finished block
ViewSync ==
    /\ pcli.stage # "idle"
    /\ pcli.view.height < (IF pcli.chain.open THEN pcli.chain.height - 1 ELSE pcli.chain.height)
    /\ LET h == pcli.view.height + 1
           mine == pcli.chain.swap_height = Some(h)
       IN  pcli' = [pcli EXCEPT
               !.view.height = h,
               !.view.swap_record = IF mine THEN Some(SwapRecordOf(pcli.chain)) ELSE @,
               !.log = IF mine THEN Append(@, "swap detected") ELSE @]
    /\ PcliFrame

\* build_and_submit_transaction returns: the transaction is confirmed
PcliSwapConfirmed ==
    /\ pcli.stage = "swap submitted"
    /\ SwapDetected(pcli)
    /\ pcli' = [pcli EXCEPT !.stage = "swap confirmed", !.log = Append(@, "swap confirmed")]
    /\ PcliFrame

\* app.view().swap_by_commitment(..): the record, or the run ends with the
\* error
PcliFetchRecord ==
    /\ pcli.stage = "swap confirmed"
    /\ IF pcli.view.swap_record = None
       THEN pcli' = [pcli EXCEPT !.stage = "error"]
       ELSE pcli' = [pcli EXCEPT !.stage = "record fetched",
                                 !.swap_record = pcli.view.swap_record,
                                 !.log = Append(@, "record fetched")]
    /\ PcliFrame

\* Planner::new(OsRng).swap_claim(SwapClaimPlan { .. }).plan(..)
PcliPlanClaim ==
    /\ pcli.stage = "record fetched"
    /\ pcli' = [pcli EXCEPT
           !.stage = "claim planned",
           !.claim_plan = Some(SwapClaimPlanNew(pcli.swap_plaintext[1], pcli.swap_record[1],
                                                [epoch_duration |-> EpochDuration])),
           !.log = Append(@, "claim built")]
    /\ PcliFrame

\* app.build_and_submit_transaction(plan) of the claim: the broadcast
PcliSubmitClaim ==
    /\ pcli.stage = "claim planned"
    /\ pcli' = [pcli EXCEPT !.stage = "claim submitted",
                            !.chain.mempool = @ \cup {"claim"},
                            !.log = Append(@, "claim submitted")]
    /\ PcliFrame

\* the claim is in a block the view service has scanned: the run ends
PcliClaimConfirmed ==
    /\ pcli.stage = "claim submitted"
    /\ pcli.chain.claim_height # None
    /\ pcli.view.height >= pcli.chain.claim_height[1]
    /\ pcli' = [pcli EXCEPT !.stage = "done"]
    /\ PcliFrame

PcliNext ==
    \/ PcliPlanSwap
    \/ PcliSubmitSwap
    \/ ChainBeginBlock
    \/ ChainEndBlock
    \/ ViewSync
    \/ PcliSwapConfirmed
    \/ PcliFetchRecord
    \/ PcliPlanClaim
    \/ PcliSubmitClaim
    \/ PcliClaimConfirmed

PcliInit == RestInit /\ CodecIdle /\ NftIdle /\ PlannerInit /\ FmdIdle /\ RatioIdle /\ pcli \in PcliInputs

PcliSpec == PcliInit /\ [][PcliNext]_vars

\* the place of an event in the run's log, 0 when it has not happened
LogPos(e) ==
    IF \E i \in 1..Len(pcli.log) : pcli.log[i] = e
    THEN CHOOSE i \in 1..Len(pcli.log) : pcli.log[i] = e
    ELSE 0

\* event a has happened, and before event b
LogBefore(a, b) == LogPos(a) > 0 /\ LogPos(a) < LogPos(b)

====
